---- MODULE Spec2Model ----
(***************************************************************************)
(* Model of the opencode-time-tracking plugin: plugin activation, the      *)
(* tool.execute.after hook, the event hook (session.idle finalization),    *)
(* the in-memory SessionManager, TicketResolver and ConfigLoader.          *)
(*                                                                         *)
(* Strings that the code inspects character by character (agent names,     *)
(* whose leading "@" is tested and stripped) are sequences of characters.  *)
(* A JavaScript null/undefined string is the string NULL; an optional      *)
(* object is a sequence of length 0 (absent) or 1 (present).               *)
(***************************************************************************)
EXTENDS Integers, Sequences, FiniteSets, TLC

VARIABLES
  configFile,          \* .opencode/opencode-project.json as found on disk
  hookVersion,         \* which createEventHook is installed once active
  pluginPc,            \* position of the plugin() activation call
  config,              \* result of ConfigLoader.load: <<>> or <<cfg>>
  hooks,               \* set of hook names returned to the host
  csvFile,             \* the CSV file: <<>> absent, else <<[header, rows]>>
  csvInitial,          \* the CSV file as it was before activation
  sessions,            \* SessionManager.sessions: Map<sessionID, SessionData>
  processingSessions,  \* EventHook.ts processingSessions: Set<sessionID>
  handlers,            \* hook invocations suspended at an await
  finished,            \* completed hook invocations (history)
  creates,             \* per session id: number of SessionManager.create calls
  now,                 \* Date.now(), also the number of events delivered
  call,                \* inputs of a direct call of a pure operation
  ret                  \* its result: <<>> before the call, <<result>> after

vars == <<configFile, hookVersion, pluginPc, config, hooks, csvFile,
          csvInitial, sessions, processingSessions, handlers, finished,
          creates, now, call, ret>>

hookVars == <<configFile, hookVersion, pluginPc, config, hooks, csvFile,
              csvInitial, sessions, processingSessions, handlers, finished,
              creates, now>>

(***************************************************************************)
(* Bounds                                                                  *)
(***************************************************************************)
MaxEvents == 3      \* host events delivered in one behaviour
MaxInFlight == 2    \* hook invocations suspended at the same time

(***************************************************************************)
(* Values                                                                  *)
(***************************************************************************)
NULL == "null"
UNDEF == "undefined"

\* Ids the host may use, and the ids it uses under Spec.
AllSessionIds == {"s1", "s2"}
SessionIds == {"s1"}

\* Agent names as character sequences; NoName is a null agent name.
NoName == <<>>
Dev == <<"d">>
AtDev == <<"@", "d">>
Bot == <<"b">>
AtBot == <<"@", "b">>
AgentNames == {Dev, AtDev, Bot, AtBot}

\* "x".startsWith("@")
StartsWithAt(s) == Len(s) > 0 /\ s[1] = "@"

\* s.replace(/^@/, "")
StripAt(s) == IF StartsWithAt(s) THEN Tail(s) ELSE s

normalize(agentName) ==
  IF StartsWithAt(agentName) THEN agentName ELSE <<"@">> \o agentName

(***************************************************************************)
(* TicketResolver                                                          *)
(*   a configuration is [agent_defaults, global_default, ignored_agents]:  *)
(*   agent_defaults is a function from the configured keys to              *)
(*   [issue_key, account_key] (account_key UNDEF when not given),          *)
(*   global_default is <<>> or <<[issue_key, account_key]>>.               *)
(***************************************************************************)
HasAgentDefault(cfg, agentName) ==
  agentName # NoName /\ agentName \in DOMAIN cfg.agent_defaults

\* A thrown TypeError or the returned string.
resolveAccountKeyNoGlobalFallback(cfg, agentName) ==
  IF cfg.global_default = <<>>
    THEN [thrown |-> TRUE, value |-> UNDEF]
    ELSE [thrown |-> FALSE, value |-> cfg.global_default[1].account_key]

resolveAccountKey(cfg, agentName) ==
  IF HasAgentDefault(cfg, agentName)
     /\ cfg.agent_defaults[agentName].account_key # UNDEF
    THEN [thrown |-> FALSE, value |-> cfg.agent_defaults[agentName].account_key]
    ELSE IF cfg.global_default = <<>>
      THEN [thrown |-> TRUE, value |-> UNDEF]
      ELSE [thrown |-> FALSE, value |-> cfg.global_default[1].account_key]

\* The ticket chosen by resolve() before the account key is attached.
resolveTicketGlobalFirst(cfg, contextTicket, agentName) ==
  IF contextTicket # NULL THEN contextTicket
  ELSE IF cfg.global_default # <<>> THEN cfg.global_default[1].issue_key
  ELSE IF HasAgentDefault(cfg, agentName)
    THEN cfg.agent_defaults[agentName].issue_key
  ELSE NULL

resolveTicket(cfg, contextTicket, agentName) ==
  IF contextTicket # NULL THEN contextTicket
  ELSE IF HasAgentDefault(cfg, agentName)
    THEN cfg.agent_defaults[agentName].issue_key
  ELSE IF cfg.global_default # <<>> THEN cfg.global_default[1].issue_key
  ELSE NULL

\* resolve(sessionID, agentName), given what ticketExtractor.extract returned.
resolve(cfg, contextTicket, agentName) ==
  LET ak == resolveAccountKey(cfg, agentName)
  IN IF ak.thrown
       THEN [thrown |-> TRUE, ticket |-> UNDEF, accountKey |-> UNDEF]
       ELSE [thrown |-> FALSE,
             ticket |-> resolveTicket(cfg, contextTicket, agentName),
             accountKey |-> ak.value]

(***************************************************************************)
(* Configurations                                                          *)
(***************************************************************************)
AgentDefault(issue, account) == [issue_key |-> issue, account_key |-> account]
GlobalDefault(issue, account) == [issue_key |-> issue, account_key |-> account]

\* The time_tracking section as written by the user (TimeTrackingJsonConfig).
JsonConfig(agentDefaults, globalDefault, ignoredAgents) ==
  [agent_defaults |-> agentDefaults, global_default |-> globalDefault,
   ignored_agents |-> ignoredAgents]

\* No agent_defaults key at all: every lookup is undefined.
NoAgentDefaults == <<>>

AgentDefaultsChoices ==
  { NoAgentDefaults,
    (Dev :> AgentDefault("DEF-2", "TD_DEV")),
    (AtDev :> AgentDefault("DEF-2", "TD_DEV")),
    (AtDev :> AgentDefault("DEF-2", UNDEF)),
    (Dev :> AgentDefault("DEF-2", UNDEF)) @@ (AtBot :> AgentDefault("BOT-7", "TD_BOT")) }

GlobalDefaultChoices ==
  { <<>>, <<GlobalDefault("GHI-3", "TD_G")>>, <<GlobalDefault("GHI-3", UNDEF)>> }

\* Configurations given to TicketResolver when it is called directly.
ResolveConfigs ==
  { JsonConfig(ad, gd, {}) : ad \in AgentDefaultsChoices, gd \in GlobalDefaultChoices }

\* Configurations the plugin is activated with.
CfgA == JsonConfig((AtDev :> AgentDefault("DEF-2", "TD_DEV")),
                   <<GlobalDefault("GHI-3", "TD_G")>>, {Bot})
CfgB == JsonConfig(NoAgentDefaults, <<GlobalDefault("GHI-3", "TD_G")>>, {AtBot})
\* Sections that TimeTrackingConfig does not allow: no global_default, and a
\* global_default without account_key.
CfgNoGlobal == JsonConfig(NoAgentDefaults, <<>>, {})
CfgNoAccount == JsonConfig(NoAgentDefaults, <<GlobalDefault("GHI-3", UNDEF)>>, {})
PluginConfigs == {CfgA, CfgB, CfgNoGlobal, CfgNoAccount}

\* GlobalDefaultConfig: issue_key and account_key are both required.
HasGlobalAccountKey(cfg) ==
  cfg.global_default # <<>> /\ cfg.global_default[1].account_key # UNDEF

(***************************************************************************)
(* ConfigLoader.load                                                       *)
(*   configFile.kind: "absent", "unreadable" (exists() or json() rejects), *)
(*   "invalid_json" (json() rejects) or "ok"; when "ok" the parsed object  *)
(*   has time_tracking = <<>> (no section) or <<section>>.                 *)
(***************************************************************************)
ConfigFiles ==
  { [kind |-> k, time_tracking |-> <<>>] :
      k \in {"absent", "unreadable", "invalid_json", "ok"} }
  \cup { [kind |-> "ok", time_tracking |-> <<c>>] : c \in PluginConfigs }

USER_EMAIL == "user@example.com"

loadDefaultsWhenNoSection(file) ==
  IF file.kind # "ok" THEN <<>>
  ELSE IF file.time_tracking = <<>>
    THEN << [agent_defaults |-> NoAgentDefaults, global_default |-> <<>>,
             ignored_agents |-> {}, user_email |-> USER_EMAIL] >>
  ELSE LET jsonConfig == file.time_tracking[1]
       IN << [agent_defaults |-> jsonConfig.agent_defaults,
              global_default |-> jsonConfig.global_default,
              ignored_agents |-> jsonConfig.ignored_agents,
              user_email |-> USER_EMAIL] >>

load(file) ==
  IF file.kind = "absent" THEN <<>>                 \* exists() is false
  ELSE IF file.kind # "ok" THEN <<>>                \* catch { return null }
  ELSE IF file.time_tracking = <<>> THEN <<>>       \* no time_tracking
  ELSE LET jsonConfig == file.time_tracking[1]
       IN << [agent_defaults |-> jsonConfig.agent_defaults,
              global_default |-> jsonConfig.global_default,
              ignored_agents |-> jsonConfig.ignored_agents,
              user_email |-> USER_EMAIL] >>

(***************************************************************************)
(* SessionManager                                                          *)
(*   sessions is a function whose domain is the set of ids in the map.     *)
(***************************************************************************)
ZeroTokens ==
  [input |-> 0, output |-> 0, reasoning |-> 0, cacheRead |-> 0, cacheWrite |-> 0]

has(map, sessionID) == sessionID \in DOMAIN map

NewSession(ticket, time) ==
  [ticket |-> ticket, startTime |-> time, activities |-> <<>>,
   tokenUsage |-> ZeroTokens, model |-> <<>>, agent |-> <<>>]

create(map, sessionID, ticket, time) ==
  [id \in DOMAIN map \cup {sessionID} |->
     IF id = sessionID THEN NewSession(ticket, time) ELSE map[id]]

\* delete that leaves the map as it is
deleteKeeps(map, sessionID) == map

delete(map, sessionID) ==
  [id \in DOMAIN map \ {sessionID} |-> map[id]]

addActivity(map, sessionID, activity) ==
  IF has(map, sessionID)
    THEN [map EXCEPT ![sessionID].activities = Append(@, activity)]
    ELSE map

addTokenUsageLast(map, sessionID, tokens) ==
  IF has(map, sessionID)
    THEN [map EXCEPT ![sessionID].tokenUsage = tokens]
    ELSE map

addTokenUsage(map, sessionID, tokens) ==
  IF has(map, sessionID)
    THEN [map EXCEPT ![sessionID].tokenUsage =
            [input |-> @.input + tokens.input,
             output |-> @.output + tokens.output,
             reasoning |-> @.reasoning + tokens.reasoning,
             cacheRead |-> @.cacheRead + tokens.cacheRead,
             cacheWrite |-> @.cacheWrite + tokens.cacheWrite]]
    ELSE map

updateTicketOrClear(map, sessionID, ticket) ==
  IF has(map, sessionID)
    THEN [map EXCEPT ![sessionID].ticket = ticket]
    ELSE map

setModelAlways(map, sessionID, model) ==
  IF has(map, sessionID)
    THEN [map EXCEPT ![sessionID].model = <<model>>]
    ELSE map

updateTicketOrCreate(map, sessionID, ticket) ==
  IF ticket = NULL THEN map
  ELSE IF has(map, sessionID) THEN [map EXCEPT ![sessionID].ticket = ticket]
  ELSE create(map, sessionID, ticket, 0)

updateTicket(map, sessionID, ticket) ==
  IF has(map, sessionID) /\ ticket # NULL
    THEN [map EXCEPT ![sessionID].ticket = ticket]
    ELSE map

setModel(map, sessionID, model) ==
  IF has(map, sessionID) /\ map[sessionID].model = <<>>
    THEN [map EXCEPT ![sessionID].model = <<model>>]
    ELSE map

\* Not in the SessionManager sources at hand: records the name and a
\* detection timestamp, the first detected agent wins.
setAgent(map, sessionID, name, time) ==
  IF has(map, sessionID) /\ map[sessionID].agent = <<>>
    THEN [map EXCEPT ![sessionID].agent = <<[name |-> name, timestamp |-> time]>>]
    ELSE map

\* Not in the SessionManager sources at hand: returns the session (<<>> when
\* absent) and removes it from the map in one synchronous step.
getAndDeleteSession(map, sessionID) ==
  IF has(map, sessionID) THEN <<map[sessionID]>> ELSE <<>>

getAndDeleteMap(map, sessionID) == delete(map, sessionID)

(***************************************************************************)
(* Host inputs                                                             *)
(***************************************************************************)
Tools == {"edit"}

\* ToolExecuteAfterOutput: title and metadata (<<>> when there is none).
NoMeta == [filePath |-> UNDEF, filepath |-> UNDEF, file |-> UNDEF, filediff |-> UNDEF]
ToolOutputs ==
  { [title |-> "", metadata |-> <<[NoMeta EXCEPT !.filediff = "src/b.ts"]>>] }

\* What ticketExtractor.extract can return: a ticket found in the host's
\* messages or todos, or null (nothing found, or both fetches failed).
ExtractResults == {NULL, "ABC-1"}

\* part.tokens of a step-finish part.
TokenTallies ==
  { [ZeroTokens EXCEPT !.input = 1],
    [ZeroTokens EXCEPT !.output = 1],
    [ZeroTokens EXCEPT !.reasoning = 1],
    [ZeroTokens EXCEPT !.cacheRead = 1],
    [ZeroTokens EXCEPT !.cacheWrite = 1] }

\* props.part of a message.part.updated event.
Parts ==
  { [type |-> "text", tokens |-> ZeroTokens] }
  \cup { [type |-> "step-finish", tokens |-> t] : t \in TokenTallies }

THE_MODEL == [modelID |-> "m", providerID |-> "p"]
OTHER_MODEL == [modelID |-> "n", providerID |-> "p"]

\* props.info of a message.updated event; mode is "" (NoName) when the
\* message carries none, withModel says whether modelID and providerID are
\* set, model is what they name.
Message(role, withModel, mode) ==
  [role |-> role, withModel |-> withModel, mode |-> mode, model |-> THE_MODEL]

Messages ==
  { Message("user", FALSE, NoName),
    Message("assistant", TRUE, NoName),
    [Message("assistant", TRUE, NoName) EXCEPT !.model = OTHER_MODEL],
    Message("assistant", FALSE, Bot),
    Message("assistant", TRUE, AtBot),
    Message("assistant", TRUE, AtDev) }

(***************************************************************************)
(* ToolExecuteAfterHook: the file recorded for an activity                 *)
(***************************************************************************)
Truthy(str) == str # UNDEF /\ str # NULL /\ str # ""

activityFile(output) ==
  LET fromMeta ==
        IF output.metadata = <<>> THEN UNDEF
        ELSE LET meta == output.metadata[1]
                 direct == IF Truthy(meta.filePath) THEN meta.filePath
                           ELSE IF Truthy(meta.filepath) THEN meta.filepath
                           ELSE meta.file
             IN IF ~Truthy(direct) /\ Truthy(meta.filediff)
                  THEN meta.filediff ELSE direct
  IN IF ~Truthy(fromMeta) /\ Truthy(output.title) THEN output.title ELSE fromMeta

(***************************************************************************)
(* Event hook helpers (session.idle)                                       *)
(***************************************************************************)
hasActivity(session) == Len(session.activities) > 0

hasTokensAnyKind(session) ==
  session.tokenUsage.input + session.tokenUsage.output
    + session.tokenUsage.reasoning + session.tokenUsage.cacheRead
    + session.tokenUsage.cacheWrite > 0

hasTokens(session) ==
  session.tokenUsage.input + session.tokenUsage.output > 0

agentString(session) ==
  IF session.agent = <<>> THEN NoName ELSE session.agent[1].name

isIgnoredAgentExact(cfg, agent) ==
  \E ignored \in cfg.ignored_agents : ignored = agent

isIgnoredAgent(cfg, agent) ==
  \E ignored \in cfg.ignored_agents : StripAt(ignored) = StripAt(agent)

totalTokens(tokenUsage) ==
  tokenUsage.input + tokenUsage.output + tokenUsage.reasoning

(***************************************************************************)
(* The CSV file, as the hooks see it: <<>> when absent, else               *)
(* <<[header, rows]>> with header TRUE when the first line is CSV_HEADER   *)
(* and rows the record lines in file order.                                *)
(***************************************************************************)
HeaderOnly == <<[header |-> TRUE, rows |-> <<>>]>>
EmptyFile == <<[header |-> FALSE, rows |-> <<>>]>>
CsvInitialFiles == {<<>>, EmptyFile, HeaderOnly}

\* ensureHeader() on a file whose rows, if any, have the current 23 columns.
ensureHeaderContent(file) ==
  IF file = <<>> THEN HeaderOnly
  ELSE IF ~file[1].header /\ file[1].rows = <<>> THEN HeaderOnly
  ELSE IF ~file[1].header THEN <<[header |-> TRUE, rows |-> file[1].rows]>>
  ELSE file

(***************************************************************************)
(* Initial states                                                          *)
(*   InitPlugin: plugin() has not been called yet.                         *)
(*   Init: plugin() has returned its hooks; no event was delivered yet.    *)
(***************************************************************************)
NoCall == [op |-> "none"]

InitPlugin ==
  /\ configFile \in ConfigFiles
  /\ hookVersion \in {"getAndDelete", "processingSessions"}
  /\ pluginPc = "init"
  /\ config = <<>>
  /\ hooks = {}
  /\ csvFile \in CsvInitialFiles
  /\ csvInitial = csvFile
  /\ sessions = <<>>
  /\ processingSessions = {}
  /\ handlers = {}
  /\ finished = {}
  /\ creates = [id \in AllSessionIds |-> 0]
  /\ now = 0
  /\ call = NoCall
  /\ ret = <<>>

AllHooks == {"tool.execute.after", "event"}

(***************************************************************************)
(* plugin(): await ConfigLoader.load(directory)                            *)
(***************************************************************************)
hooksAfterLoad(loaded, version) ==
  IF loaded = <<>> THEN {}
  ELSE IF version = "getAndDelete" THEN {}      \* ensureHeader comes first
  ELSE AllHooks

pcAfterLoadEnsureFirst(loaded, version) ==
  IF version = "getAndDelete" THEN "ensureHeader" ELSE "returned"

pcAfterLoad(loaded, version) ==
  IF loaded = <<>> THEN "returned"
  ELSE IF version = "getAndDelete" THEN "ensureHeader"
  ELSE "returned"

LoadConfig ==
  /\ pluginPc = "init"
  /\ config' = load(configFile)
  /\ hooks' = hooksAfterLoad(config', hookVersion)
  /\ pluginPc' = pcAfterLoad(config', hookVersion)
  /\ UNCHANGED <<configFile, hookVersion, csvFile, csvInitial, sessions,
                 processingSessions, handlers, finished, creates,
                 now, call, ret>>

\* plugin(): await csvWriter.ensureHeader(), not inside any try block.
EnsureHeader ==
  /\ pluginPc = "ensureHeader"
  /\ \E ok \in BOOLEAN :
       IF ok
         THEN /\ csvFile' = ensureHeaderContent(csvFile)
              /\ hooks' = AllHooks
              /\ pluginPc' = "returned"
         ELSE /\ csvFile' = csvFile
              /\ hooks' = {}
              /\ pluginPc' = "threw"
  /\ UNCHANGED <<configFile, hookVersion, config, csvInitial, sessions,
                 processingSessions, handlers, finished, creates,
                 now, call, ret>>

\* The getAndDelete hook is installed by the plugin() that runs ensureHeader
\* first (Plugin.ts); the processingSessions hook by the plugin() that does
\* not (part_016), so that the file may still be absent at the first write.
\* The hooks are studied with configurations of the documented shape
\* (global_default with account_key); what load does with the others is the
\* subject of SpecPlugin, what resolve does with them of SpecResolve.
Init ==
  /\ configFile \in { f \in ConfigFiles :
                        load(f) # <<>> /\ HasGlobalAccountKey(load(f)[1]) }
  /\ hookVersion \in {"getAndDelete", "processingSessions"}
  /\ hookVersion = "processingSessions" => configFile.time_tracking[1] = CfgA
  /\ pluginPc = "returned"
  /\ config = load(configFile)
  /\ hooks = AllHooks
  /\ csvFile \in IF hookVersion = "getAndDelete"
                   THEN {ensureHeaderContent(f) : f \in CsvInitialFiles}
                   ELSE {<<>>, HeaderOnly}
  /\ csvInitial = csvFile
  /\ sessions = <<>>
  /\ processingSessions = {}
  /\ handlers = {}
  /\ finished = {}
  /\ creates = [id \in AllSessionIds |-> 0]
  /\ now = 0
  /\ call = NoCall
  /\ ret = <<>>

(***************************************************************************)
(* Hook invocations                                                        *)
(***************************************************************************)
NoResolved == [ticket |-> UNDEF, accountKey |-> UNDEF]

NewHandler(id, kind, sid) ==
  [id |-> id, kind |-> kind, sid |-> sid, pc |-> "start",
   popped |-> <<>>, endTime |-> 0, tool |-> UNDEF, file |-> UNDEF,
   title |-> NULL, resolved |-> NoResolved, content |-> <<>>,
   rows |-> 0, toasts |-> <<>>, createsAtPop |-> 0, writeRaised |-> FALSE,
   duplicate |-> FALSE, tokens |-> ZeroTokens, instance |-> 0,
   extracted |-> UNDEF]

CanDeliver == "event" \in hooks /\ now < MaxEvents
CanSuspend == Cardinality(handlers) < MaxInFlight

Suspend(h) == handlers' = handlers \cup {h}
Resume(h, h2) == handlers' = (handlers \ {h}) \cup {h2}
Finish(h, h2) ==
  /\ handlers' = handlers \ {h}
  /\ finished' = finished \cup {h2}
\* How an invocation ended: it returned, or its promise rejected (the
\* exception reaches the host).
Returned(h) == [h EXCEPT !.pc = "returned", !.content = <<>>]
Threw(h) == [h EXCEPT !.pc = "threw", !.content = <<>>]

(***************************************************************************)
(* tool.execute.after                                                      *)
(***************************************************************************)
ToolBegin(sid, tool, output) ==
  /\ CanDeliver /\ CanSuspend
  /\ now' = now + 1
  /\ IF has(sessions, sid)
       THEN UNCHANGED <<sessions, creates>>
       ELSE /\ sessions' = create(sessions, sid, NULL, now')
            /\ creates' = [creates EXCEPT ![sid] = @ + 1]
  /\ Suspend([NewHandler(now', "tool", sid) EXCEPT
                !.pc = "extract", !.tool = tool, !.file = activityFile(output)])
  /\ UNCHANGED <<configFile, hookVersion, pluginPc, config, hooks, csvFile,
                 csvInitial, processingSessions, finished, call, ret>>

\* ticketExtractor.extract settles (it catches every host API failure).
ToolExtractDone(h, ticket) ==
  /\ h.kind = "tool" /\ h.pc = "extract"
  /\ sessions' =
       addActivity(updateTicket(sessions, h.sid, ticket), h.sid,
                   [tool |-> h.tool, timestamp |-> now, file |-> h.file])
  /\ Finish(h, Returned([h EXCEPT !.extracted = ticket]))
  /\ UNCHANGED <<configFile, hookVersion, pluginPc, config, hooks, csvFile,
                 csvInitial, processingSessions, creates, now, call, ret>>

(***************************************************************************)
(* event hook: message.updated and message.part.updated (synchronous)      *)
(***************************************************************************)
\* create without the has check
ensureSessionAlwaysCreates(map, sid, time) == create(map, sid, NULL, time)

ensureSession(map, sid, time) ==
  IF has(map, sid) THEN map ELSE create(map, sid, NULL, time)

messageUpdated(version, map, sid, message, time) ==
  IF version = "getAndDelete" /\ message.role = "assistant"
    THEN LET s1 == ensureSession(map, sid, time)
             s2 == IF message.withModel THEN setModel(s1, sid, message.model) ELSE s1
         IN IF message.mode # NoName
              THEN setAgent(s2, sid, message.mode, time) ELSE s2
    ELSE map

MessageUpdated(sid, message) ==
  /\ CanDeliver
  /\ now' = now + 1
  /\ sessions' = messageUpdated(hookVersion, sessions, sid, message, now')
  /\ creates' = IF has(sessions', sid) /\ ~has(sessions, sid)
                  THEN [creates EXCEPT ![sid] = @ + 1] ELSE creates
  /\ UNCHANGED <<configFile, hookVersion, pluginPc, config, hooks, csvFile,
                 csvInitial, processingSessions, handlers, finished, call, ret>>

partUpdated(version, map, sid, part, time) ==
  IF part.type = "step-finish"
    THEN IF version = "getAndDelete"
           THEN addTokenUsage(ensureSession(map, sid, time), sid, part.tokens)
           ELSE addTokenUsage(map, sid, part.tokens)
    ELSE map

\* The invocation is synchronous; a handled step-finish part is kept in
\* finished with its token counts and the instance of the session (the
\* number of create calls for the id so far) that was in the map after it,
\* 0 when none was.
PartUpdated(sid, part) ==
  /\ CanDeliver
  /\ now' = now + 1
  /\ sessions' = partUpdated(hookVersion, sessions, sid, part, now')
  /\ creates' = IF has(sessions', sid) /\ ~has(sessions, sid)
                  THEN [creates EXCEPT ![sid] = @ + 1] ELSE creates
  /\ finished' =
       IF part.type = "step-finish"
         THEN finished \cup
                {Returned([NewHandler(now', "part", sid) EXCEPT
                             !.tokens = part.tokens,
                             !.instance = IF has(sessions', sid)
                                            THEN creates'[sid] ELSE 0])}
         ELSE finished
  /\ UNCHANGED <<configFile, hookVersion, pluginPc, config, hooks, csvFile,
                 csvInitial, processingSessions, handlers, call, ret>>

(***************************************************************************)
(* event hook: session.idle, up to the first await                         *)
(***************************************************************************)
\* part_015:253  if (!session || (!hasActivity && !hasTokens)) return
discardAbsentOnly(session) == session = <<>>

discardSilently(session) ==
  session = <<>> \/ (~hasActivity(session[1]) /\ ~hasTokens(session[1]))

\* EventHook.ts:126  if (!session || session.activities.length === 0)
discardNoActivity(session) ==
  session = <<>> \/ Len(session[1].activities) = 0

\* EventHook.ts:133  sessionManager.delete(sessionID) before the first await
deleteDeferred(map, sid) == map

deleteImmediately(map, sid) == delete(map, sid)

IdleBeginPop(sid) ==
  /\ CanDeliver /\ hookVersion = "getAndDelete"
  /\ now' = now + 1
  /\ LET session == getAndDeleteSession(sessions, sid)
         h == [NewHandler(now', "idle", sid) EXCEPT
                 !.popped = session, !.endTime = now',
                 !.createsAtPop = creates[sid]]
     IN /\ sessions' = getAndDeleteMap(sessions, sid)
        /\ IF discardSilently(session)
             THEN /\ finished' = finished \cup {Returned(h)}
                  /\ UNCHANGED handlers
             ELSE /\ CanSuspend
                  /\ Suspend([h EXCEPT !.pc = "summary"])
                  /\ UNCHANGED finished
  /\ UNCHANGED <<configFile, hookVersion, pluginPc, config, hooks, csvFile,
                 csvInitial, processingSessions, creates, call, ret>>

IdleBeginProcessing(sid) ==
  /\ CanDeliver /\ hookVersion = "processingSessions"
  /\ now' = now + 1
  /\ LET session == IF has(sessions, sid) THEN <<sessions[sid]>> ELSE <<>>
         h == [NewHandler(now', "idle", sid) EXCEPT
                 !.endTime = now', !.createsAtPop = creates[sid]]
     IN IF sid \in processingSessions
          THEN \* duplicate session.idle: skipped
               /\ finished' = finished \cup {Returned([h EXCEPT !.duplicate = TRUE])}
               /\ UNCHANGED <<sessions, handlers, processingSessions>>
          ELSE IF discardNoActivity(session)
            THEN /\ sessions' = delete(sessions, sid)
                 /\ finished' = finished \cup {Returned([h EXCEPT !.popped = session])}
                 /\ UNCHANGED <<handlers, processingSessions>>
            ELSE /\ CanSuspend
                 /\ processingSessions' = processingSessions \cup {sid}
                 /\ sessions' = deleteImmediately(sessions, sid)
                 /\ Suspend([h EXCEPT !.pc = "summary", !.popped = session])
                 /\ UNCHANGED finished
  /\ UNCHANGED <<configFile, hookVersion, pluginPc, config, hooks, csvFile,
                 csvInitial, creates, call, ret>>

(***************************************************************************)
(* event hook: session.idle after the first await                          *)
(***************************************************************************)
SummaryTitles == {NULL, "Fix login"}

\* The record handed to csvWriter.write and the line it becomes.
Line(h) ==
  LET session == h.popped[1]
  IN [id |-> h.id,
      ticket |-> IF hookVersion = "getAndDelete" THEN h.resolved.ticket
                 ELSE session.ticket,
      accountKey |-> h.resolved.accountKey,
      startTime |-> session.startTime,
      endTime |-> h.endTime,
      durationSeconds |-> h.endTime - session.startTime,
      summaryTitle |-> h.title,
      activities |-> session.activities,
      tokenUsage |-> session.tokenUsage,
      totalTokens |-> totalTokens(session.tokenUsage),
      model |-> session.model,
      agent |-> agentString(session)]

\* extractSummaryTitle settles (it catches every host API failure), then the
\* ignored-agent check runs (getAndDelete variant only).
IdleSummaryDone(h, title) ==
  /\ h.kind = "idle" /\ h.pc = "summary"
  /\ LET agent == agentString(h.popped[1])
         next == IF hookVersion = "processingSessions" THEN "exists"
                 ELSE IF agent # NoName /\ isIgnoredAgent(config[1], agent)
                   THEN "toastInfo"
                 ELSE "resolve"
     IN Resume(h, [h EXCEPT !.pc = next, !.title = title])
  /\ UNCHANGED <<configFile, hookVersion, pluginPc, config, hooks, csvFile,
                 csvInitial, sessions, processingSessions, finished, creates,
                 now, call, ret>>

\* await showToast({variant: "info"}) for an ignored agent, then return.
IdleToastInfo(h, ok) ==
  /\ h.kind = "idle" /\ h.pc = "toastInfo"
  /\ LET h2 == [h EXCEPT !.toasts = Append(@, "info")]
     IN Finish(h, IF ok THEN Returned(h2) ELSE Threw(h2))
  /\ UNCHANGED <<configFile, hookVersion, pluginPc, config, hooks, csvFile,
                 csvInitial, sessions, processingSessions, creates, now, call, ret>>

\* await ticketResolver.resolve(sessionID, agentString), outside the try.
IdleResolveDone(h, contextTicket) ==
  /\ h.kind = "idle" /\ h.pc = "resolve"
  /\ LET r == resolve(config[1], contextTicket, agentString(h.popped[1]))
     IN IF r.thrown
          THEN Finish(h, Threw(h))
          ELSE /\ Resume(h, [h EXCEPT !.pc = "exists",
                               !.resolved = [ticket |-> r.ticket,
                                             accountKey |-> r.accountKey]])
               /\ UNCHANGED finished
  /\ UNCHANGED <<configFile, hookVersion, pluginPc, config, hooks, csvFile,
                 csvInitial, sessions, processingSessions, creates, now, call, ret>>

\* csvWriter.write: await file.exists()
WriteExists(h, ok) ==
  /\ h.kind = "idle" /\ h.pc = "exists"
  /\ Resume(h, IF ~ok THEN [h EXCEPT !.pc = "toastError", !.writeRaised = TRUE]
               ELSE IF csvFile = <<>> THEN [h EXCEPT !.pc = "writeNew"]
               ELSE [h EXCEPT !.pc = "text"])
  /\ UNCHANGED <<configFile, hookVersion, pluginPc, config, hooks, csvFile,
                 csvInitial, sessions, processingSessions, finished, creates,
                 now, call, ret>>

\* csvWriter.write: await file.text()
WriteText(h, ok) ==
  /\ h.kind = "idle" /\ h.pc = "text"
  /\ Resume(h, IF ok /\ csvFile # <<>>
                 THEN [h EXCEPT !.pc = "append", !.content = csvFile]
                 ELSE [h EXCEPT !.pc = "toastError", !.writeRaised = TRUE])
  /\ UNCHANGED <<configFile, hookVersion, pluginPc, config, hooks, csvFile,
                 csvInitial, sessions, processingSessions, finished, creates,
                 now, call, ret>>

\* csvWriter.write: await Bun.write(csvPath, content + csvLine + "\n")
WriteAppend(h, ok) ==
  /\ h.kind = "idle" /\ h.pc = "append"
  /\ IF ok
       THEN /\ csvFile' = <<[header |-> h.content[1].header,
                             rows |-> Append(h.content[1].rows, Line(h))]>>
            /\ Resume(h, [h EXCEPT !.pc = "toastSuccess", !.rows = @ + 1])
       ELSE /\ csvFile' = csvFile
            /\ Resume(h, [h EXCEPT !.pc = "toastError", !.writeRaised = TRUE])
  /\ UNCHANGED <<configFile, hookVersion, pluginPc, config, hooks,
                 csvInitial, sessions, processingSessions, finished, creates,
                 now, call, ret>>

\* csvWriter.write: await Bun.write(csvPath, CSV_HEADER + "\n" + csvLine + "\n")
WriteNew(h, ok) ==
  /\ h.kind = "idle" /\ h.pc = "writeNew"
  /\ IF ok
       THEN /\ csvFile' = <<[header |-> TRUE, rows |-> <<Line(h)>>]>>
            /\ Resume(h, [h EXCEPT !.pc = "toastSuccess", !.rows = @ + 1])
       ELSE /\ csvFile' = csvFile
            /\ Resume(h, [h EXCEPT !.pc = "toastError", !.writeRaised = TRUE])
  /\ UNCHANGED <<configFile, hookVersion, pluginPc, config, hooks,
                 csvInitial, sessions, processingSessions, finished, creates,
                 now, call, ret>>

\* The statement after the try/catch: processingSessions.delete(sessionID).
IdleEnd(h, h2) ==
  /\ Finish(h, Returned(h2))
  /\ processingSessions' =
       IF hookVersion = "processingSessions"
         THEN processingSessions \ {h.sid} ELSE processingSessions

\* await showToast({variant: "success"}), inside the try.
ToastSuccess(h, ok) ==
  /\ h.kind = "idle" /\ h.pc = "toastSuccess"
  /\ LET h2 == [h EXCEPT !.toasts = Append(@, "success")]
     IN IF ok
          THEN IdleEnd(h, h2)
          ELSE /\ Resume(h, [h2 EXCEPT !.pc = "toastError"])
               /\ UNCHANGED <<finished, processingSessions>>
  /\ UNCHANGED <<configFile, hookVersion, pluginPc, config, hooks, csvFile,
                 csvInitial, sessions, creates, now, call, ret>>

\* The notification the catch block requests.
catchSilently(toasts) == toasts

catchNotifies(toasts) == Append(toasts, "error")

\* await showToast({variant: "error"}), inside the catch.
ToastError(h, ok) ==
  /\ h.kind = "idle" /\ h.pc = "toastError"
  /\ LET h2 == [h EXCEPT !.toasts = catchNotifies(@)]
     IN IF ok
          THEN IdleEnd(h, h2)
          ELSE /\ Finish(h, Threw(h2))
               /\ UNCHANGED processingSessions
  /\ UNCHANGED <<configFile, hookVersion, pluginPc, config, hooks, csvFile,
                 csvInitial, sessions, creates, now, call, ret>>

(***************************************************************************)
(* Specification of the activated plugin and its hooks                     *)
(***************************************************************************)
Next ==
  \/ \E sid \in SessionIds, tool \in Tools, output \in ToolOutputs :
       ToolBegin(sid, tool, output)
  \/ \E h \in handlers, ticket \in ExtractResults : ToolExtractDone(h, ticket)
  \/ \E sid \in SessionIds, message \in Messages : MessageUpdated(sid, message)
  \/ \E sid \in SessionIds, part \in Parts : PartUpdated(sid, part)
  \/ \E sid \in SessionIds : IdleBeginPop(sid)
  \/ \E sid \in SessionIds : IdleBeginProcessing(sid)
  \/ \E h \in handlers, title \in SummaryTitles : IdleSummaryDone(h, title)
  \/ \E h \in handlers, ok \in BOOLEAN : IdleToastInfo(h, ok)
  \/ \E h \in handlers, ticket \in ExtractResults : IdleResolveDone(h, ticket)
  \/ \E h \in handlers, ok \in BOOLEAN : WriteExists(h, ok)
  \/ \E h \in handlers, ok \in BOOLEAN : WriteText(h, ok)
  \/ \E h \in handlers, ok \in BOOLEAN : WriteAppend(h, ok)
  \/ \E h \in handlers, ok \in BOOLEAN : WriteNew(h, ok)
  \/ \E h \in handlers, ok \in BOOLEAN : ToastSuccess(h, ok)
  \/ \E h \in handlers, ok \in BOOLEAN : ToastError(h, ok)

Spec == Init /\ [][Next]_vars

(***************************************************************************)
(* Specification of plugin activation                                      *)
(***************************************************************************)
NextPlugin == LoadConfig \/ EnsureHeader

SpecPlugin == InitPlugin /\ [][NextPlugin]_vars


(***************************************************************************)
(* Specification of TicketResolver.resolve called directly                 *)
(***************************************************************************)
ResolveCalls ==
  { [op |-> "resolve", cfg |-> c, contextTicket |-> t, agentName |-> a] :
      c \in ResolveConfigs, t \in ExtractResults, a \in {NoName} \cup AgentNames }

InitResolve ==
  /\ call \in ResolveCalls
  /\ ret = <<>>
  /\ configFile = [kind |-> "absent", time_tracking |-> <<>>]
  /\ hookVersion = "getAndDelete"
  /\ pluginPc = "init"
  /\ config = <<>>
  /\ hooks = {}
  /\ csvFile = <<>>
  /\ csvInitial = <<>>
  /\ sessions = <<>>
  /\ processingSessions = {}
  /\ handlers = {}
  /\ finished = {}
  /\ creates = [id \in AllSessionIds |-> 0]
  /\ now = 0

CallResolve ==
  /\ call.op = "resolve" /\ ret = <<>>
  /\ ret' = <<resolve(call.cfg, call.contextTicket, call.agentName)>>
  /\ UNCHANGED <<call, hookVars>>

NextResolve == CallResolve

SpecResolve == InitResolve /\ [][NextResolve]_vars


(***************************************************************************)
(* Properties                                                              *)
(***************************************************************************)
IdleInvocations == { h \in handlers \cup finished : h.kind = "idle" }

\* The invocation found a session in the map when it started.
Popped(h) == h.popped # <<>>
PoppedWithActivity(h) == Popped(h) /\ Len(h.popped[1].activities) > 0

AllTokensZero(session) == session.tokenUsage = ZeroTokens

\* No event has created the session again since the invocation started.
NotCreatedSince(h) == creates[h.sid] = h.createsAtPop

RowsAppendedFor(sid) ==
  Cardinality({ h \in IdleInvocations : h.sid = sid /\ h.rows > 0 })

DiscardedSilently(h) ==
  /\ h \in finished /\ h.kind = "idle" /\ Popped(h)
  /\ h.pc = "returned" /\ h.rows = 0 /\ h.toasts = <<>>

\* C3 as stated: the getAndDelete variant discards a popped session without a
\* CSV write only if it has no activities and no positive token count of any
\* kind (input, output, reasoning, cache read, cache write).
C3_DiscardOnlyWithoutAnyTokens ==
  \A h \in finished :
    hookVersion = "getAndDelete" /\ DiscardedSilently(h)
    => ~hasActivity(h.popped[1]) /\ ~hasTokensAnyKind(h.popped[1])

\* C7 as stated: whenever the detected agent equals an ignored_agents entry
\* up to a leading "@", session.idle writes no row, requests exactly one
\* "info" notification and leaves the session absent.
AgentIsIgnored(h) ==
  /\ hookVersion = "getAndDelete" /\ Popped(h)
  /\ h.popped[1].agent # <<>>
  /\ h.popped[1].agent[1].name \in {Bot, AtBot}
  /\ config[1].ignored_agents \cap {Bot, AtBot} # {}

Trackable(session) ==
  Len(session.activities) > 0
  \/ session.tokenUsage.input > 0 \/ session.tokenUsage.output > 0

C10_NothingPropagates ==
  /\ pluginPc # "threw"
  /\ \A h \in finished : h.pc # "threw"

(***************************************************************************)
(* Properties of plugin activation (SpecPlugin)                            *)
(***************************************************************************)
\* C8 as stated: load returns null for every time_tracking section that
\* lacks global_default or global_default.account_key.
C8_LoadRejectsMissingGlobalDefault ==
  /\ pluginPc # "init"
  /\ configFile.kind = "ok" /\ configFile.time_tracking # <<>>
  /\ ~HasGlobalAccountKey(configFile.time_tracking[1])
  => config = <<>>

\* C9: when the configuration file is absent, unreadable, not valid JSON or
\* has no time_tracking section, plugin() returns no hooks, never reaches
\* ensureHeader, leaves the CSV file as it was and raises nothing.
ConfigUnusable ==
  configFile.kind \in {"absent", "unreadable", "invalid_json"}
  \/ (configFile.kind = "ok" /\ configFile.time_tracking = <<>>)

C9_InactiveWithoutConfig ==
  ConfigUnusable
  => /\ pluginPc \in {"init", "returned"}
     /\ hooks = {}
     /\ config = <<>>
     /\ csvFile = csvInitial

C9_Witness ==
  /\ pluginPc = "returned" /\ hookVersion = "getAndDelete"
  /\ configFile.kind = "invalid_json" /\ csvInitial = <<>>

(***************************************************************************)
(* Properties of TicketResolver.resolve (SpecResolve)                      *)
(***************************************************************************)
\* C4 as stated: resolve returns the context ticket when there is one, else
\* the agent default issue key when the agent has a configured default, else
\* the global default issue key, and null when none of these exists.
C4_TicketPrecedence ==
  ret # <<>>
  => /\ ~ret[1].thrown
     /\ ret[1].ticket =
          IF call.contextTicket # NULL THEN call.contextTicket
          ELSE IF call.agentName \in DOMAIN call.cfg.agent_defaults
            THEN call.cfg.agent_defaults[call.agentName].issue_key
          ELSE IF call.cfg.global_default # <<>>
            THEN call.cfg.global_default[1].issue_key
          ELSE NULL

\* C5: the account key resolve returns is the agent's own account_key when
\* one is configured for the agent name, else global_default.account_key, and
\* does not depend on where the ticket came from.
AgentAccountKey ==
  IF call.agentName \in DOMAIN call.cfg.agent_defaults
    THEN call.cfg.agent_defaults[call.agentName].account_key
    ELSE UNDEF

C5_AccountKeyPrecedence ==
  ret # <<>>
  => /\ AgentAccountKey # UNDEF
          => ~ret[1].thrown /\ ret[1].accountKey = AgentAccountKey
     /\ AgentAccountKey = UNDEF /\ call.cfg.global_default # <<>>
          => /\ ~ret[1].thrown
             /\ ret[1].accountKey = call.cfg.global_default[1].account_key
     /\ \A t \in ExtractResults :
          LET other == resolve(call.cfg, t, call.agentName)
          IN /\ other.thrown = ret[1].thrown
             /\ other.accountKey = ret[1].accountKey

\* C5 witness: agent key and global key both configured, ticket taken from
\* the global default's rival, the agent default.
C5_Witness ==
  /\ ret # <<>> /\ call.contextTicket = NULL
  /\ AgentAccountKey = "TD_DEV"
  /\ call.cfg.global_default # <<>>
  /\ call.cfg.global_default[1].account_key = "TD_G"
  /\ ret[1].accountKey = "TD_DEV"

\* C6 as stated: resolve gives the same ticket and account key for "n" and
\* "@n", whichever of the two forms the agent_defaults key is written in.
OtherForm(name) ==
  IF StartsWithAt(name) THEN Tail(name) ELSE <<"@">> \o name

C6_PrefixTolerantLookup ==
  ret # <<>> /\ call.agentName # NoName
  => resolve(call.cfg, call.contextTicket, OtherForm(call.agentName)) = ret[1]


(***************************************************************************)
(* Properties of a failed write at session.idle (Spec)                     *)
(***************************************************************************)
ToastsOf(h) == { h.toasts[i] : i \in DOMAIN h.toasts }

\* C11: when csvWriter.write raises during session.idle, exactly one failure
\* notification is requested and nothing else, no row is appended, the
\* session stays removed from the map, and a later session.idle for that id
\* before any event re-created the session finds nothing and writes nothing.
C11_WriteFailureNotRetried ==
  \A h \in IdleInvocations :
    h.writeRaised
    => /\ h.rows = 0
       /\ h \in finished => h.toasts = <<"error">>
       /\ h \in handlers => h.pc = "toastError" /\ h.toasts = <<>>
       /\ NotCreatedSince(h) => ~has(sessions, h.sid)
       /\ \A h2 \in IdleInvocations :
            h2.sid = h.sid /\ h2.id > h.id /\ h2.createsAtPop = h.createsAtPop
            => h2 \in finished /\ h2.rows = 0 /\ h2.toasts = <<>>
               /\ (h2.popped = <<>> \/ h2.duplicate)

\* C11 witness: the write raised, the failure was notified, and a later
\* session.idle for the same id has been handled.
C11_Witness ==
  \E h \in finished, h2 \in finished :
    /\ h.kind = "idle" /\ h.writeRaised /\ h.toasts = <<"error">>
    /\ h2.kind = "idle" /\ h2.sid = h.sid /\ h2.id > h.id
    /\ h2.createsAtPop = h.createsAtPop /\ h2.rows = 0


(***************************************************************************)
(* CSV text.  A text is a sequence of symbols: the characters QUOTE, COMMA,*)
(* NL and SP, and words, each standing for a run of other characters.      *)
(***************************************************************************)
QUOTE == "\""
COMMA == ","
NL == "\n"
SP == " "
Whitespace == {NL, SP}

\* String.prototype.trim
RECURSIVE FirstKept(_, _)
FirstKept(s, i) ==
  IF i > Len(s) THEN 0
  ELSE IF s[i] \notin Whitespace THEN i
  ELSE FirstKept(s, i + 1)

RECURSIVE LastKept(_, _)
LastKept(s, i) ==
  IF i < 1 THEN 0
  ELSE IF s[i] \notin Whitespace THEN i
  ELSE LastKept(s, i - 1)

trim(s) ==
  LET first == FirstKept(s, 1)
  IN IF first = 0 THEN <<>> ELSE SubSeq(s, first, LastKept(s, Len(s)))

\* s.indexOf(c, i), counted from 1; 0 when there is none
IndexFrom(s, c, i) ==
  LET found == { k \in i..Len(s) : s[k] = c }
  IN IF found = {} THEN 0
     ELSE CHOOSE k \in found : \A m \in found : k <= m

\* s.split("\n")
RECURSIVE split(_)
split(s) ==
  LET i == IndexFrom(s, NL, 1)
  IN IF i = 0 THEN <<s>>
     ELSE <<SubSeq(s, 1, i - 1)>> \o split(SubSeq(s, i + 1, Len(s)))

\* lines.join(sep)
RECURSIVE join(_, _)
join(lines, sep) ==
  IF lines = <<>> THEN <<>>
  ELSE IF Len(lines) = 1 THEN lines[1]
  ELSE lines[1] \o sep \o join(Tail(lines), sep)

startsWith(s, prefix) ==
  Len(s) >= Len(prefix) /\ SubSeq(s, 1, Len(prefix)) = prefix

(***************************************************************************)
(* CsvFormatter.countColumns                                               *)
(***************************************************************************)
\* csvLine.match(/","/g): the matches found from position i on, leftmost
\* first and not overlapping.  Two occurrences overlap only when they are
\* two positions apart (the closing quote of one is the opening quote of
\* the next); of a run of such occurrences every second one is a match.
matchCount(s, i) ==
  LET found == { k \in i..(Len(s) - 2) :
                   s[k] = QUOTE /\ s[k + 1] = COMMA /\ s[k + 2] = QUOTE }
      runBefore(k) ==
        CHOOSE j \in 0..Len(s) :
          /\ \A m \in 1..j : k - 2 * m \in found
          /\ k - 2 * (j + 1) \notin found
  IN Cardinality({ k \in found : runBefore(k) % 2 = 0 })

countColumns(csvLine) ==
  IF Len(trim(csvLine)) = 0 THEN 0
  ELSE LET matches == matchCount(csvLine, 1)
       IN IF matches > 0 THEN matches + 1 ELSE 1

(***************************************************************************)
(* CsvWriter: header, isHeaderLine, padCsvLine                             *)
(***************************************************************************)
CSV_COLUMN_COUNT == 23

ColumnNames ==
  <<"id", "start_date", "end_date", "user", "ticket_name", "issue_key",
    "account_key", "start_time", "end_time", "duration_seconds",
    "tokens_used", "tokens_remaining", "story_points", "description",
    "notes", "model", "agent", "tokens_input", "tokens_output",
    "tokens_reasoning", "tokens_cache_read", "tokens_cache_write", "cost">>

CSV_HEADER == join([i \in DOMAIN ColumnNames |-> <<ColumnNames[i]>>], <<COMMA>>)

isHeaderLineNever(line) == FALSE

isHeaderLine(line) ==
  startsWith(line, <<QUOTE, "id", QUOTE>>) \/ startsWith(line, <<"id", COMMA>>)

\* Array(missingColumns).fill('""').join(",")
emptyFields(missingColumns) ==
  join([i \in 1..missingColumns |-> <<QUOTE, QUOTE>>], <<COMMA>>)

padCsvLineNever(line, currentColumns, targetColumns) == line

padCsvLineAlways(line, currentColumns, targetColumns) ==
  line \o <<COMMA>> \o emptyFields(1)

\* padCsvLine that returns the padding without the line
padCsvLineReplaces(line, currentColumns, targetColumns) ==
  IF currentColumns >= targetColumns THEN line
  ELSE emptyFields(targetColumns)

padCsvLine(line, currentColumns, targetColumns) ==
  IF currentColumns >= targetColumns THEN line
  ELSE line \o <<COMMA>> \o emptyFields(targetColumns - currentColumns)

(***************************************************************************)
(* CsvWriter.ensureHeader on the file as text: <<>> when the file is       *)
(* absent, else <<content>>.  The result names the content afterwards,     *)
(* whether Bun.write was called, and the value returned.                   *)
(***************************************************************************)
Written(content) == [file |-> <<content>>, wrote |-> TRUE, result |-> TRUE]
Untouched(file) == [file |-> file, wrote |-> FALSE, result |-> FALSE]

ensureHeader(file) ==
  IF file = <<>> THEN Written(CSV_HEADER \o <<NL>>)
  ELSE
    LET content == file[1]
        trimmedContent == trim(content)
    IN IF Len(trimmedContent) = 0 THEN Written(CSV_HEADER \o <<NL>>)
       ELSE
         LET lines == split(trimmedContent)
             firstLine == lines[1]
             hasHeader == isHeaderLine(firstLine)
             dataLineIndex == IF hasHeader THEN 2 ELSE 1
         IN IF dataLineIndex > Len(lines)
              THEN IF hasHeader /\ countColumns(firstLine) < CSV_COLUMN_COUNT
                     THEN Written(CSV_HEADER \o <<NL>>)
                     ELSE Untouched(file)
              ELSE
                LET columnCount == countColumns(lines[dataLineIndex])
                    dataLines == IF hasHeader THEN Tail(lines) ELSE lines
                    paddedLines ==
                      [i \in DOMAIN dataLines |->
                         padCsvLine(dataLines[i], countColumns(dataLines[i]),
                                    CSV_COLUMN_COUNT)]
                IN IF columnCount >= CSV_COLUMN_COUNT
                     THEN IF ~hasHeader
                            THEN Written(CSV_HEADER \o <<NL>> \o trimmedContent
                                         \o <<NL>>)
                            ELSE Untouched(file)
                     ELSE Written(CSV_HEADER \o <<NL>>
                                  \o join(paddedLines, <<NL>>) \o <<NL>>)


(***************************************************************************)
(* CsvWriter.write on the file as text                                     *)
(***************************************************************************)
\* value.replace('"', '""'): a string pattern replaces the first occurrence
\* only.
escapeFirstOnly(value) ==
  LET quotes == { k \in DOMAIN value : value[k] = QUOTE }
      first == CHOOSE k \in quotes : \A m \in quotes : k <= m
  IN IF quotes = {} THEN value
     ELSE SubSeq(value, 1, first) \o <<QUOTE>>
          \o SubSeq(value, first + 1, Len(value))

\* CsvFormatter.escape: value.replace(/"/g, '""')
RECURSIVE escape(_)
escape(value) ==
  IF value = <<>> THEN <<>>
  ELSE (IF Head(value) = QUOTE THEN <<QUOTE, QUOTE>> ELSE <<Head(value)>>)
       \o escape(Tail(value))

\* Number.prototype.toString, toFixed(6), formatDate and formatTime give one
\* word each.
numberToString(n) == <<ToString(n)>>
toFixed6(n) == <<ToString(n) \o ".000000">>
formatDate(timestamp) == <<"date" \o ToString(timestamp)>>
formatTime(timestamp) == <<"time" \o ToString(timestamp)>>

\* value ?? ""
orEmpty(value) == IF value = NULL THEN <<>> ELSE <<value>>

fields(data, uuid, userEmail) ==
  << <<uuid>>,
     formatDate(data.startTime),
     formatDate(data.endTime),
     <<userEmail>>,
     <<>>,
     orEmpty(data.ticket),
     <<data.accountKey>>,
     formatTime(data.startTime),
     formatTime(data.endTime),
     numberToString(data.durationSeconds),
     numberToString(totalTokens(data.tokenUsage)),
     <<>>,
     <<>>,
     escape(data.description),
     escape(data.notes),
     orEmpty(data.model),
     orEmpty(data.agent),
     numberToString(data.tokenUsage.input),
     numberToString(data.tokenUsage.output),
     numberToString(data.tokenUsage.reasoning),
     numberToString(data.tokenUsage.cacheRead),
     numberToString(data.tokenUsage.cacheWrite),
     toFixed6(data.cost) >>

\* fields.map((f) => `"${f}"`).join(",")
quoted(f) == <<QUOTE>> \o f \o <<QUOTE>>
csvLine(fs) == join([i \in DOMAIN fs |-> quoted(fs[i])], <<COMMA>>)

writeOverwrite(file, line) == <<line \o <<NL>> >>

write(file, line) ==
  IF file = <<>>
    THEN <<CSV_HEADER \o <<NL>> \o line \o <<NL>> >>
    ELSE <<file[1] \o line \o <<NL>> >>


(***************************************************************************)
(* Files found at startup: written by this or an earlier version of the    *)
(* writer (quoted fields, quotes doubled), with or without a header line.  *)
(***************************************************************************)
MaxCalls == 2         \* CsvWriter calls in one behaviour
MaxInitialRows == 2   \* data rows in the file found at startup

\* Free text holding quote, comma, quote.
QuotedList == <<"say", QUOTE, "a", QUOTE, COMMA, QUOTE, "b", QUOTE>>

\* A row of n columns as a writer formats it: id first, description 14th.
RowFields(id, n, description) ==
  [i \in 1..n |-> IF i = 1 THEN <<id>>
                  ELSE IF i \in {5, 12, 13} THEN <<>>
                  ELSE IF i = 14 THEN escape(description)
                  ELSE <<"v">>]
Row(id, n, description) == csvLine(RowFields(id, n, description))

RowKinds ==
  { [n |-> 15, description |-> <<"Fix">>],
    [n |-> 17, description |-> QuotedList],
    [n |-> 23, description |-> <<"Fix">>],
    [n |-> 24, description |-> <<"Fix">>] }

RowIds == <<"r1", "r2", "r3">>

InitialRows ==
  UNION { [1..k -> RowKinds] : k \in 0..MaxInitialRows }

OldHeader == join([i \in 1..17 |-> <<ColumnNames[i]>>], <<COMMA>>)
QuotedHeader == csvLine([i \in DOMAIN ColumnNames |-> <<ColumnNames[i]>>])
InitialHeaders == {<<>>, <<OldHeader>>, <<CSV_HEADER>>, <<QuotedHeader>>}

FileText(header, kinds) ==
  LET rows == [i \in DOMAIN kinds |->
                 Row(RowIds[i], kinds[i].n, kinds[i].description)]
      lines == header \o rows
  IN IF lines = <<>> THEN <<>> ELSE join(lines, <<NL>>) \o <<NL>>

CsvTextFiles ==
  {<<>>, << <<NL>> >>}
    \cup { <<FileText(header, kinds)>> :
             header \in InitialHeaders, kinds \in InitialRows }

\* Records handed to write.
CsvData ==
  { [ticket |-> NULL, accountKey |-> "TD_G", startTime |-> 0, endTime |-> 1,
     durationSeconds |-> 1, description |-> <<"Fix">>,
     notes |-> <<"Auto-tracked:", SP, "edit(1x)">>,
     tokenUsage |-> ZeroTokens, model |-> NULL, agent |-> NULL, cost |-> 0],
    [ticket |-> "ABC-1", accountKey |-> "TD_DEV", startTime |-> 1,
     endTime |-> 3, durationSeconds |-> 2, description |-> QuotedList,
     notes |-> <<"Auto-tracked:", SP, "edit(1x),", SP, "read(2x)">>,
     tokenUsage |-> [input |-> 1, output |-> 2, reasoning |-> 3,
                     cacheRead |-> 4, cacheWrite |-> 5],
     model |-> "anthropic/m", agent |-> "@d", cost |-> 1] }

\* randomUUID() at the n-th call.
randomUUID(n) == "uuid" \o ToString(n)

(***************************************************************************)
(* Specification of CsvWriter called directly, one caller at a time:       *)
(* csvFile holds the file as text and ret the calls made so far.           *)
(***************************************************************************)
InitCsv ==
  /\ csvFile \in CsvTextFiles
  /\ csvInitial = csvFile
  /\ ret = <<>>
  /\ call = NoCall
  /\ configFile = [kind |-> "absent", time_tracking |-> <<>>]
  /\ hookVersion = "getAndDelete"
  /\ pluginPc = "init"
  /\ config = <<>>
  /\ hooks = {}
  /\ sessions = <<>>
  /\ processingSessions = {}
  /\ handlers = {}
  /\ finished = {}
  /\ creates = [id \in AllSessionIds |-> 0]
  /\ now = 0

csvFrame == <<configFile, hookVersion, pluginPc, config, hooks, csvInitial,
              sessions, processingSessions, handlers, finished, creates,
              now, call>>

CallEnsureHeader ==
  /\ Len(ret) < MaxCalls
  /\ LET r == ensureHeader(csvFile)
     IN /\ csvFile' = r.file
        /\ ret' = Append(ret, [op |-> "ensureHeader", before |-> csvFile,
                               after |-> r.file, wrote |-> r.wrote,
                               result |-> r.result, line |-> <<>>,
                               data |-> <<>>])
  /\ UNCHANGED csvFrame

CallWrite(data) ==
  /\ Len(ret) < MaxCalls
  /\ LET line == csvLine(fields(data, randomUUID(Len(ret) + 1), USER_EMAIL))
         after == write(csvFile, line)
     IN /\ csvFile' = after
        /\ ret' = Append(ret, [op |-> "write", before |-> csvFile,
                               after |-> after, wrote |-> TRUE,
                               result |-> FALSE, line |-> line,
                               data |-> <<data>>])
  /\ UNCHANGED csvFrame

NextCsv ==
  \/ CallEnsureHeader
  \/ \E data \in CsvData : CallWrite(data)

SpecCsv == InitCsv /\ [][NextCsv]_vars


(***************************************************************************)
(* Properties of CsvWriter (SpecCsv)                                       *)
(***************************************************************************)
\* The columns of a CSV line as a CSV reader counts them: commas outside
\* quoted fields separate columns; a doubled quote inside a field closes and
\* reopens it.
\* The positions of the commas of a line that stand outside quotes: those
\* with an even number of quote characters before them.
CommasOutsideQuotes(line) ==
  { k \in { c \in 1..Len(line) : line[c] = COMMA } :
      Cardinality({ q \in 1..(k - 1) : line[q] = QUOTE }) % 2 = 0 }

ColumnsOf(line) == Cardinality(CommasOutsideQuotes(line)) + 1

\* The lines of a file, its header line left out.
LinesOf(file) ==
  IF file = <<>> \/ trim(file[1]) = <<>> THEN <<>> ELSE split(trim(file[1]))
HasHeaderLine(file) == LinesOf(file) # <<>> /\ isHeaderLine(LinesOf(file)[1])
DataRows(file) ==
  IF HasHeaderLine(file) THEN Tail(LinesOf(file)) ELSE LinesOf(file)

RECURSIVE EmptyQuotedFields(_)
EmptyQuotedFields(n) ==
  IF n <= 0 THEN <<>> ELSE <<COMMA, QUOTE, QUOTE>> \o EmptyQuotedFields(n - 1)

PaddedTo23(line) == line \o EmptyQuotedFields(CSV_COLUMN_COUNT - ColumnsOf(line))

EnsureHeaderCalls == { i \in DOMAIN ret : ret[i].op = "ensureHeader" }
WriteCalls == { i \in DOMAIN ret : ret[i].op = "write" }

HeaderlessNarrowRows(file) ==
  /\ ~HasHeaderLine(file)
  /\ DataRows(file) # <<>>
  /\ \A k \in DOMAIN DataRows(file) :
       ColumnsOf(DataRows(file)[k]) < CSV_COLUMN_COUNT

\* C12 as stated: on a file of headerless rows that each have fewer than 23
\* columns, ensureHeader leaves the canonical header followed by the same
\* rows in the same order, each padded with empty quoted fields to exactly
\* 23 columns.
C12_HeaderlessRowsPaddedTo23 ==
  \A i \in EnsureHeaderCalls :
    HeaderlessNarrowRows(ret[i].before)
    => LET rows == DataRows(ret[i].before)
       IN ret[i].after =
            << CSV_HEADER \o <<NL>>
               \o join([k \in DOMAIN rows |-> PaddedTo23(rows[k])], <<NL>>)
               \o <<NL>> >>

\* The same for rows in which no field holds the text quote-comma-quote
\* (countColumns counts the columns of such rows correctly).
C12_HoldsForPlainRows ==
  \A i \in EnsureHeaderCalls :
    /\ HeaderlessNarrowRows(ret[i].before)
    /\ \A k \in DOMAIN DataRows(ret[i].before) :
         countColumns(DataRows(ret[i].before)[k])
           = ColumnsOf(DataRows(ret[i].before)[k])
    => LET rows == DataRows(ret[i].before)
       IN ret[i].after =
            << CSV_HEADER \o <<NL>>
               \o join([k \in DOMAIN rows |-> PaddedTo23(rows[k])], <<NL>>)
               \o <<NL>> >>


\* C13: ensureHeader is idempotent on file content: whatever the file held
\* before (absent, empty, headerless rows, outdated header, current header,
\* rows of mixed widths, rows appended by write), a call of ensureHeader
\* that directly follows a call of ensureHeader leaves the content as the
\* first call left it.
C13_EnsureHeaderIdempotent ==
  \A i \in EnsureHeaderCalls :
    i > 1 /\ ret[i - 1].op = "ensureHeader"
    => ret[i].after = ret[i - 1].after

\* C13 witness: the first call migrated a file of an outdated header and
\* rows of mixed widths, and a second call followed.
C13_Witness ==
  /\ Len(ret) = 2 /\ ret[1].op = "ensureHeader" /\ ret[2].op = "ensureHeader"
  /\ HasHeaderLine(ret[1].before)
  /\ LinesOf(ret[1].before)[1] = OldHeader
  /\ \E k, m \in DOMAIN DataRows(ret[1].before) :
       /\ ColumnsOf(DataRows(ret[1].before)[k]) < CSV_COLUMN_COUNT
       /\ ColumnsOf(DataRows(ret[1].before)[m]) > CSV_COLUMN_COUNT
  /\ ret[1].after # ret[1].before
  /\ ret[2].after = ret[1].after


\* The file starts with the current header and every data row after it, if
\* any, has at least 23 columns.
CurrentHeaderAndWideRows(file) ==
  /\ LinesOf(file) # <<>>
  /\ LinesOf(file)[1] \in {CSV_HEADER, QuotedHeader}
  /\ \A k \in DOMAIN DataRows(file) :
       ColumnsOf(DataRows(file)[k]) >= CSV_COLUMN_COUNT

\* C14 as stated: on a file that starts with the current 23-column header,
\* followed by no data rows or by data rows of at least 23 columns,
\* ensureHeader performs no write and returns false.
C14_CurrentFileUntouched ==
  \A i \in EnsureHeaderCalls :
    CurrentHeaderAndWideRows(ret[i].before)
    => ~ret[i].wrote /\ ~ret[i].result /\ ret[i].after = ret[i].before


\* C15: ensureHeader never alters a data row that already has 23 or more
\* columns: on every path, a migration triggered by a narrower first row
\* included, the row stands unchanged at the same position afterwards.
C15_WideRowsUnchanged ==
  \A i \in EnsureHeaderCalls :
    LET before == DataRows(ret[i].before)
        after == DataRows(ret[i].after)
    IN \A k \in DOMAIN before :
         ColumnsOf(before[k]) >= CSV_COLUMN_COUNT
         => k \in DOMAIN after /\ after[k] = before[k]

\* C15 witness: the first row was narrower and has been padded, a later row
\* had 24 columns.
C15_Witness ==
  \E i \in EnsureHeaderCalls :
    LET before == DataRows(ret[i].before)
        after == DataRows(ret[i].after)
    IN /\ Len(before) = 2 /\ Len(after) = 2
       /\ ColumnsOf(before[1]) < CSV_COLUMN_COUNT
       /\ after[1] # before[1]
       /\ ColumnsOf(before[2]) > CSV_COLUMN_COUNT
       /\ after[2] = before[2]


\* C16 as stated: after ensureHeader on a file that holds data rows, every
\* data row of the file has at least 23 columns, whichever row comes first
\* and whether or not a header was present.
C16_AllRowsAtLeast23 ==
  \A i \in EnsureHeaderCalls :
    DataRows(ret[i].before) # <<>>
    => \A k \in DOMAIN DataRows(ret[i].after) :
         ColumnsOf(DataRows(ret[i].after)[k]) >= CSV_COLUMN_COUNT

\* The same for files whose first data row is narrower than 23 columns and
\* in whose rows no field holds the text quote-comma-quote.
C16_HoldsAfterNarrowPlainFirstRow ==
  \A i \in EnsureHeaderCalls :
    LET before == DataRows(ret[i].before)
    IN /\ before # <<>>
       /\ ColumnsOf(before[1]) < CSV_COLUMN_COUNT
       /\ \A k \in DOMAIN before : countColumns(before[k]) = ColumnsOf(before[k])
       => \A k \in DOMAIN DataRows(ret[i].after) :
            ColumnsOf(DataRows(ret[i].after)[k]) >= CSV_COLUMN_COUNT


(***************************************************************************)
(* Specification of session.idle for two sessions that have both run one   *)
(* tool: the hooks are installed, each session holds one activity, and the *)
(* host delivers session.idle events only.                                 *)
(***************************************************************************)
ToolRan(time) ==
  [NewSession(NULL, time) EXCEPT
     !.activities = <<[tool |-> "edit", timestamp |-> time, file |-> "src/b.ts"]>>]

InitIdle ==
  /\ configFile = [kind |-> "ok", time_tracking |-> <<CfgA>>]
  /\ hookVersion \in {"getAndDelete", "processingSessions"}
  /\ pluginPc = "returned"
  /\ config = load(configFile)
  /\ hooks = AllHooks
  /\ csvFile \in IF hookVersion = "getAndDelete"
                   THEN {HeaderOnly} ELSE {<<>>, HeaderOnly}
  /\ csvInitial = csvFile
  /\ sessions = [id \in AllSessionIds |-> ToolRan(0)]
  /\ processingSessions = {}
  /\ handlers = {}
  /\ finished = {}
  /\ creates = [id \in AllSessionIds |-> 1]
  /\ now = 0
  /\ call = NoCall
  /\ ret = <<>>

NextIdle ==
  \/ \E sid \in AllSessionIds : IdleBeginPop(sid)
  \/ \E sid \in AllSessionIds : IdleBeginProcessing(sid)
  \/ \E h \in handlers, title \in SummaryTitles : IdleSummaryDone(h, title)
  \/ \E h \in handlers, ticket \in ExtractResults : IdleResolveDone(h, ticket)
  \/ \E h \in handlers, ok \in BOOLEAN : WriteExists(h, ok)
  \/ \E h \in handlers, ok \in BOOLEAN : WriteText(h, ok)
  \/ \E h \in handlers, ok \in BOOLEAN : WriteAppend(h, ok)
  \/ \E h \in handlers, ok \in BOOLEAN : WriteNew(h, ok)
  \/ \E h \in handlers, ok \in BOOLEAN : ToastSuccess(h, ok)
  \/ \E h \in handlers, ok \in BOOLEAN : ToastError(h, ok)

SpecIdle == InitIdle /\ [][NextIdle]_vars


(***************************************************************************)
(* Properties of write as the idle handlers use it (SpecIdle)              *)
(***************************************************************************)
\* C17 as stated: write is append-only: whenever a write changes a file that
\* exists, the content afterwards is the content before it followed by the
\* new record line; no line that was in the file is changed or removed.
C17_WriteAppendOnly ==
  [][csvFile # <<>> /\ csvFile' # csvFile
     => /\ csvFile' # <<>>
        /\ csvFile'[1].header = csvFile[1].header
        /\ Len(csvFile'[1].rows) = Len(csvFile[1].rows) + 1
        /\ SubSeq(csvFile'[1].rows, 1, Len(csvFile[1].rows)) = csvFile[1].rows]_vars

\* The same for write called by one caller at a time, on the file as text
\* (SpecCsv).
C17_HoldsForOneCaller ==
  \A i \in WriteCalls :
    ret[i].before # <<>>
    => ret[i].after = << ret[i].before[1] \o ret[i].line \o <<NL>> >>


(***************************************************************************)
(* Reading a CSV line back: the columns between commas outside quotes, and *)
(* the value of a quoted column (wrapping quotes removed, doubled quotes   *)
(* halved).                                                                *)
(***************************************************************************)
\* The columns of a line: the pieces between its commas outside quotes.
ReadColumns(line) ==
  LET commas == CommasOutsideQuotes(line)
      nth(n) == CHOOSE k \in commas : Cardinality({ m \in commas : m < k }) = n - 1
      count == Cardinality(commas) + 1
  IN [n \in 1..count |->
        SubSeq(line, IF n = 1 THEN 1 ELSE nth(n - 1) + 1,
                     IF n = count THEN Len(line) ELSE nth(n) - 1)]

IsQuoted(column) ==
  Len(column) >= 2 /\ column[1] = QUOTE /\ column[Len(column)] = QUOTE

RECURSIVE HalveQuotes(_)
HalveQuotes(text) ==
  IF text = <<>> THEN <<>>
  ELSE IF Len(text) >= 2 /\ text[1] = QUOTE /\ text[2] = QUOTE
    THEN <<QUOTE>> \o HalveQuotes(SubSeq(text, 3, Len(text)))
  ELSE <<text[1]>> \o HalveQuotes(Tail(text))

ValueOf(column) == HalveQuotes(SubSeq(column, 2, Len(column) - 1))

\* What the record of the n-th call puts under each column name.
ExpectedValue(data, n, name) ==
  CASE name = "id" -> <<randomUUID(n)>>
    [] name = "start_date" -> formatDate(data.startTime)
    [] name = "end_date" -> formatDate(data.endTime)
    [] name = "user" -> <<USER_EMAIL>>
    [] name = "ticket_name" -> <<>>
    [] name = "issue_key" -> IF data.ticket = NULL THEN <<>> ELSE <<data.ticket>>
    [] name = "account_key" -> <<data.accountKey>>
    [] name = "start_time" -> formatTime(data.startTime)
    [] name = "end_time" -> formatTime(data.endTime)
    [] name = "duration_seconds" -> numberToString(data.durationSeconds)
    [] name = "tokens_used" ->
         numberToString(data.tokenUsage.input + data.tokenUsage.output
                        + data.tokenUsage.reasoning)
    [] name = "tokens_remaining" -> <<>>
    [] name = "story_points" -> <<>>
    [] name = "description" -> data.description
    [] name = "notes" -> data.notes
    [] name = "model" -> IF data.model = NULL THEN <<>> ELSE <<data.model>>
    [] name = "agent" -> IF data.agent = NULL THEN <<>> ELSE <<data.agent>>
    [] name = "tokens_input" -> numberToString(data.tokenUsage.input)
    [] name = "tokens_output" -> numberToString(data.tokenUsage.output)
    [] name = "tokens_reasoning" -> numberToString(data.tokenUsage.reasoning)
    [] name = "tokens_cache_read" -> numberToString(data.tokenUsage.cacheRead)
    [] name = "tokens_cache_write" -> numberToString(data.tokenUsage.cacheWrite)
    [] name = "cost" -> toFixed6(data.cost)

\* The n-th call added one line of its own, of 23 quoted columns holding the
\* record's values in header order.
AddedOneRecordLine(n) ==
  LET before == LinesOf(ret[n].before)
      after == LinesOf(ret[n].after)
      added == after[Len(after)]
      columns == ReadColumns(added)
  IN /\ Len(after) = Len(before) + 1
     /\ \A k \in DOMAIN before \ {1} : after[k] = before[k]
     /\ Len(columns) = CSV_COLUMN_COUNT
     /\ \A j \in DOMAIN columns :
          /\ IsQuoted(columns[j])
          /\ ValueOf(columns[j]) = ExpectedValue(ret[n].data[1], n, ColumnNames[j])

EnsureHeaderThenWrites ==
  /\ Len(ret) >= 1
  /\ ret[1].op = "ensureHeader"
  /\ \A n \in DOMAIN ret : n > 1 => ret[n].op = "write"

\* The header names in order, quoted or not.
IsCurrentHeader(line) == line \in {CSV_HEADER, QuotedHeader}

\* C18 as stated: after ensureHeader followed by any sequence of write calls
\* (no other writer), the first line of the file is the canonical header and
\* every write added exactly one line of its own holding 23 double-quoted
\* comma-separated fields in header order, ticket_name, tokens_remaining and
\* story_points empty.
C18_HeaderThenRecordLines ==
  EnsureHeaderThenWrites
  => /\ IsCurrentHeader(LinesOf(csvFile)[1])
     /\ \A n \in WriteCalls : AddedOneRecordLine(n)

\* The second half alone: every write after ensureHeader adds one line of its
\* own with the 23 quoted fields in header order.
C18_HoldsForRecordLines ==
  EnsureHeaderThenWrites => \A n \in WriteCalls : AddedOneRecordLine(n)


\* C19: when the file does not exist as write is called, write creates it
\* holding the canonical header line followed by the record line: the record
\* is in the file and the file has its header.
C19_AbsentFileGetsHeaderAndRecord ==
  \A n \in WriteCalls :
    ret[n].before = <<>>
    => /\ ret[n].after = << CSV_HEADER \o <<NL>> \o ret[n].line \o <<NL>> >>
       /\ LinesOf(ret[n].after)[1] = CSV_HEADER
       /\ Len(LinesOf(ret[n].after)) = 2
       /\ \A j \in DOMAIN ColumnNames :
            ValueOf(ReadColumns(LinesOf(ret[n].after)[2])[j])
              = ExpectedValue(ret[n].data[1], n, ColumnNames[j])

\* C19 witness: ensureHeader never ran; the first write found no file and a
\* second write appended to the file the first one created.
C19_Witness ==
  /\ Len(ret) = 2 /\ ret[1].op = "write" /\ ret[2].op = "write"
  /\ ret[1].before = <<>>
  /\ Len(LinesOf(csvFile)) = 3
  /\ LinesOf(csvFile)[1] = CSV_HEADER

\* C19 for the idle handlers (SpecIdle): a handler whose write found the file
\* absent leaves, at the step it writes, a file with the header and its
\* record as the only row.
C19_IdleWriteCreatesFile ==
  [][\A h \in handlers :
       h.pc = "writeNew" /\ csvFile' # csvFile
         /\ (\E h2 \in handlers' : h2.id = h.id /\ h2.rows = h.rows + 1)
       => csvFile' = <<[header |-> TRUE, rows |-> <<Line(h)>>]>>]_vars


(***************************************************************************)
(* Properties of the token counts of a row (Spec)                          *)
(***************************************************************************)
\* The step-finish parts handled for the session instance a row was written
\* from, and the sums of their counts.
StepFinishesOf(sid, instance) ==
  { p \in finished : p.kind = "part" /\ p.sid = sid /\ p.instance = instance }

RECURSIVE SumOfTokens(_)
SumOfTokens(S) ==
  IF S = {} THEN ZeroTokens
  ELSE LET p == CHOOSE q \in S : TRUE
           rest == SumOfTokens(S \ {p})
       IN [input |-> p.tokens.input + rest.input,
           output |-> p.tokens.output + rest.output,
           reasoning |-> p.tokens.reasoning + rest.reasoning,
           cacheRead |-> p.tokens.cacheRead + rest.cacheRead,
           cacheWrite |-> p.tokens.cacheWrite + rest.cacheWrite]

RowsInFile == IF csvFile = <<>> THEN <<>> ELSE csvFile[1].rows

\* C20: in every row written at session.idle, the five token counts equal
\* the sums of the counts of all step-finish parts handled for that session
\* since it was created, and tokens_used is the sum of the input, output and
\* reasoning sums (cache counts left out).
C20_RowTokensAreSums ==
  \A k \in DOMAIN RowsInFile :
    \A h \in IdleInvocations :
      h.id = RowsInFile[k].id
      => LET sums == SumOfTokens(StepFinishesOf(h.sid, h.createsAtPop))
         IN /\ RowsInFile[k].tokenUsage = sums
            /\ RowsInFile[k].totalTokens
                 = sums.input + sums.output + sums.reasoning

\* C20 witness: a row for a session that handled one step-finish part with
\* a cache-read count and one with an input count.
C20_Witness ==
  \E k \in DOMAIN RowsInFile :
    /\ RowsInFile[k].tokenUsage.input = 1
    /\ RowsInFile[k].tokenUsage.cacheRead = 1
    /\ RowsInFile[k].totalTokens = 1
    /\ \E h \in IdleInvocations :
         /\ h.id = RowsInFile[k].id
         /\ Cardinality(StepFinishesOf(h.sid, h.createsAtPop)) = 2

(***************************************************************************)
(* Properties of step-finish parts for an id that is not in the map (Spec) *)
(***************************************************************************)
StepFinishParts == { part \in Parts : part.type = "step-finish" }

\* C21: a step-finish part for a session id that is not in the map creates
\* the session and adds the part's token counts to it.
C21_StepFinishCreatesSession ==
  [][\A sid \in SessionIds : \A part \in StepFinishParts :
       (PartUpdated(sid, part) /\ ~has(sessions, sid))
       => (has(sessions', sid) /\ sessions'[sid].tokenUsage = part.tokens)]_vars

\* The same for the hook that ensures the session first.
C21_HoldsWithEnsureSession ==
  [][\A sid \in SessionIds : \A part \in StepFinishParts :
       (PartUpdated(sid, part) /\ ~has(sessions, sid)
          /\ hookVersion = "getAndDelete")
       => (has(sessions', sid) /\ sessions'[sid].tokenUsage = part.tokens)]_vars

\* A step-finish part was handled while its id was not in the map and no
\* session was in the map afterwards.
C21_DroppedPartReached ==
  \E p \in finished : p.kind = "part" /\ p.instance = 0

(***************************************************************************)
(* TicketExtractor                                                         *)
(*   a text is a sequence of characters; a ticket is a non-empty text and  *)
(*   NoTicket stands for null.                                             *)
(***************************************************************************)
MaxTextLen == 4     \* characters of a text handed to extractFromText
MaxMessages == 2    \* messages returned by client.session.messages
MaxTodos == 2       \* todos returned by client.session.todo

NoTicket == <<>>

UpperCase == {"A", "B", "C", "D", "E", "F", "J", "O", "P", "R", "T", "U", "V", "X"}
DigitChars == {"1", "2", "3", "8", "9"}
WordChars == UpperCase \cup DigitChars \cup {"a", "_"}

\* \b before position i (i = Len(text) + 1 is the end of the text)
isWordAt(text, i) == i \in 1..Len(text) /\ text[i] \in WordChars

wordBoundary(text, i) == isWordAt(text, i - 1) # isWordAt(text, i)

\* Positions after a run of the class that starts at position i.
runEnds(text, i, class) ==
  { e \in (i + 1)..(Len(text) + 1) : \A k \in i..(e - 1) : text[k] \in class }

\* [A-Z]+ of the first pattern of the extractor and [A-Z]{2,} of the
\* default pattern.
oneOrMore(n) == n >= 1

twoOrMore(n) == n >= 2

DEFAULT_TICKET_PATTERN == [projects |-> <<>>]

ticketPatternIgnoresProjects(validProjects) == DEFAULT_TICKET_PATTERN

\* constructor: the pattern built from validProjects (<<>> when the argument
\* is undefined, else <<the array>>).
ticketPattern(validProjects) ==
  IF validProjects # <<>> /\ Len(validProjects[1]) > 0
    THEN [projects |-> validProjects[1]]
    ELSE DEFAULT_TICKET_PATTERN

\* Positions after the letters of the pattern matched at position i: a run
\* of two or more capitals, or one of the project keys joined with "|".
lettersEnds(text, i, pattern) ==
  IF pattern.projects = <<>>
    THEN { e \in runEnds(text, i, UpperCase) : twoOrMore(e - i) }
    ELSE { i + Len(pattern.projects[n]) : n \in
             { n \in DOMAIN pattern.projects :
                 /\ i + Len(pattern.projects[n]) - 1 <= Len(text)
                 /\ SubSeq(text, i, i + Len(pattern.projects[n]) - 1)
                      = pattern.projects[n] } }

\* Positions after a match of \b(letters-\d+)\b that starts at position i.
matchEnds(text, i, pattern) ==
  IF ~wordBoundary(text, i) THEN {}
  ELSE UNION { IF l <= Len(text) /\ text[l] = "-"
                 THEN { e \in runEnds(text, l + 1, DigitChars) :
                          wordBoundary(text, e) }
                 ELSE {} : l \in lettersEnds(text, i, pattern) }

\* text.match(pattern): the leftmost start with a match; the quantifiers are
\* greedy, so of the matches at that start the longest is taken.
match(text, pattern) ==
  LET starts == { i \in 1..Len(text) : matchEnds(text, i, pattern) # {} }
  IN IF starts = {} THEN NoTicket
     ELSE LET i == CHOOSE s \in starts : \A t \in starts : s <= t
              ends == matchEnds(text, i, pattern)
              e == CHOOSE x \in ends : \A y \in ends : y <= x
          IN SubSeq(text, i, e - 1)

\* match?.[1] ?? null
extractFromText(text, pattern) == match(text, pattern)

\* What a host call gives: it rejects, or resolves with data (<<>> when
\* data is undefined, else <<the array>>).
Rejected == [thrown |-> TRUE, data |-> <<>>]
Resolved(data) == [thrown |-> FALSE, data |-> data]

\* for (const part of message.parts): the first non-synthetic text part
\* with a match, from position n on.
RECURSIVE scanParts(_, _, _)
scanParts(parts, n, pattern) ==
  IF n > Len(parts) THEN NoTicket
  ELSE LET part == parts[n]
           ticket == IF part.type = "text" /\ part.text # <<>> /\ ~part.synthetic
                       THEN extractFromText(part.text, pattern) ELSE NoTicket
       IN IF ticket # NoTicket THEN ticket
          ELSE scanParts(parts, n + 1, pattern)

\* for (let i = messages.length - 1; i >= 0; i--)
RECURSIVE scanMessages(_, _, _)
scanMessages(messages, i, pattern) ==
  IF i < 1 THEN NoTicket
  ELSE LET message == messages[i]
           ticket == IF message.role # "user" THEN NoTicket
                     ELSE scanParts(message.parts, 1, pattern)
       IN IF ticket # NoTicket THEN ticket
          ELSE scanMessages(messages, i - 1, pattern)

\* The catch blocks of extractFromMessages and extractFromTodos.
catchRethrows(outcome) == [thrown |-> TRUE, value |-> NoTicket]

catchReturnsNull(outcome) == [thrown |-> FALSE, value |-> NoTicket]

extractFromMessages(result, pattern) ==
  IF result.thrown THEN catchReturnsNull(result)
  ELSE IF result.data = <<>> THEN [thrown |-> FALSE, value |-> NoTicket]
  ELSE [thrown |-> FALSE,
        value |-> scanMessages(result.data[1], Len(result.data[1]), pattern)]

\* for (let i = todos.length - 1; i >= 0; i--)
RECURSIVE scanTodos(_, _, _)
scanTodos(todos, i, pattern) ==
  IF i < 1 THEN NoTicket
  ELSE LET ticket == IF todos[i].content # <<>>
                       THEN extractFromText(todos[i].content, pattern)
                       ELSE NoTicket
       IN IF ticket # NoTicket THEN ticket
          ELSE scanTodos(todos, i - 1, pattern)

extractFromTodos(result, pattern) ==
  IF result.thrown THEN catchReturnsNull(result)
  ELSE IF result.data = <<>> THEN [thrown |-> FALSE, value |-> NoTicket]
  ELSE [thrown |-> FALSE,
        value |-> scanTodos(result.data[1], Len(result.data[1]), pattern)]

(***************************************************************************)
(* SpecExtract: calls of TicketExtractor                                   *)
(*   call is the call made, ret is <<>> until an await of the call has     *)
(*   settled and then holds where the call stands.                         *)
(***************************************************************************)
TextChars == {"A", "B", "-", "1", " ", "a"}

RECURSIVE TextsOfLen(_)
TextsOfLen(n) ==
  IF n = 0 THEN {<<>>}
  ELSE { Append(t, c) : t \in TextsOfLen(n - 1), c \in TextChars }

ExampleTexts ==
  { <<"P", "R", "O", "J", "-", "1", "2", "3">>,
    <<"A", "B", "-", "1">>,
    <<"X", "-", "9">>,
    <<"V", "-", "1">>,
    <<"U", "T", "F", "-", "8">>,
    <<"a", " ", "U", "T", "F", "-", "8", " ", "a">>,
    <<"A", "B", "_", "A", "B", "-", "1">>,
    <<"a", " ", "A", "B", "-", "1", " ", "B", "A", "-", "2">> }

Texts == ExampleTexts \cup UNION { TextsOfLen(n) : n \in 0..MaxTextLen }

AB == <<"A", "B">>
BA == <<"B", "A">>

\* The validProjects argument: undefined, [], ["AB"], ["AB", "BA"].
ValidProjects == { <<>>, << <<>> >>, << <<AB>> >>, << <<AB, BA>> >> }

AB1 == <<"A", "B", "-", "1">>
BA2 == <<"B", "A", "-", "2">>
Prose == <<"a">>

TextPart(text, synthetic) ==
  [type |-> "text", text |-> text, synthetic |-> synthetic]

FilePart == [type |-> "file", text |-> <<>>, synthetic |-> FALSE]

MessageWithParts(role, parts) == [role |-> role, parts |-> parts]

\* Messages are listed oldest first, and so are the parts of a message.
MessageKinds ==
  { MessageWithParts("user", <<TextPart(AB1, FALSE)>>),
    MessageWithParts("user", <<TextPart(BA2, FALSE)>>),
    MessageWithParts("user", <<TextPart(AB1, FALSE), TextPart(BA2, FALSE)>>),
    MessageWithParts("user", <<TextPart(BA2, TRUE), TextPart(Prose, FALSE)>>),
    MessageWithParts("user", <<FilePart, TextPart(AB1, TRUE)>>),
    MessageWithParts("user", <<TextPart(Prose, FALSE)>>),
    MessageWithParts("assistant", <<TextPart(BA2, FALSE)>>) }

Todo(content) == [content |-> content]

TodoKinds == { Todo(AB1), Todo(BA2), Todo(Prose), Todo(<<>>) }

RECURSIVE ListsOfLen(_, _)
ListsOfLen(S, n) ==
  IF n = 0 THEN {<<>>}
  ELSE { Append(l, x) : l \in ListsOfLen(S, n - 1), x \in S }

ListsUpTo(S, n) == UNION { ListsOfLen(S, k) : k \in 0..n }

MessagesResults ==
  {Rejected, Resolved(<<>>)}
  \cup { Resolved(<<l>>) : l \in ListsUpTo(MessageKinds, MaxMessages) }

TodoResults ==
  {Rejected, Resolved(<<>>)}
  \cup { Resolved(<<l>>) : l \in ListsUpTo(TodoKinds, MaxTodos) }

ExtractCalls ==
  { [op |-> "extractFromText", text |-> t, validProjects |-> v] :
      t \in Texts, v \in ValidProjects }
  \cup { [op |-> "extract", validProjects |-> v] : v \in ValidProjects }

InitExtract ==
  /\ call \in ExtractCalls
  /\ ret = <<>>
  /\ configFile = [kind |-> "absent", time_tracking |-> <<>>]
  /\ hookVersion = "getAndDelete"
  /\ pluginPc = "init"
  /\ config = <<>>
  /\ hooks = {}
  /\ csvFile = <<>>
  /\ csvInitial = <<>>
  /\ sessions = <<>>
  /\ processingSessions = {}
  /\ handlers = {}
  /\ finished = {}
  /\ creates = [id \in AllSessionIds |-> 0]
  /\ now = 0

CallExtractFromText ==
  /\ call.op = "extractFromText" /\ ret = <<>>
  /\ ret' = <<[pc |-> "returned",
               value |-> extractFromText(call.text,
                                         ticketPattern(call.validProjects))]>>
  /\ UNCHANGED <<call, hookVars>>

\* extract: await this.extractFromMessages(sessionID) settles.
ExtractMessagesSettled(result) ==
  /\ call.op = "extract" /\ ret = <<>>
  /\ LET r == extractFromMessages(result, ticketPattern(call.validProjects))
     IN ret' = <<[pc |-> IF r.thrown THEN "threw"
                         ELSE IF r.value # NoTicket THEN "returned"
                         ELSE "todos",
                  messages |-> result, todos |-> <<>>, value |-> r.value]>>
  /\ UNCHANGED <<call, hookVars>>

\* extract: await this.extractFromTodos(sessionID) settles.
ExtractTodosSettled(result) ==
  /\ call.op = "extract" /\ ret # <<>> /\ ret[1].pc = "todos"
  /\ LET r == extractFromTodos(result, ticketPattern(call.validProjects))
     IN ret' = <<[ret[1] EXCEPT !.pc = IF r.thrown THEN "threw" ELSE "returned",
                                !.todos = <<result>>, !.value = r.value]>>
  /\ UNCHANGED <<call, hookVars>>

NextExtract ==
  \/ CallExtractFromText
  \/ \E result \in MessagesResults : ExtractMessagesSettled(result)
  \/ \E result \in TodoResults : ExtractTodosSettled(result)

SpecExtract == InitExtract /\ [][NextExtract]_vars

(***************************************************************************)
(* Properties of TicketExtractor (SpecExtract)                             *)
(***************************************************************************)
TextCalled == call.op = "extractFromText" /\ ret # <<>>

DefaultPatternCalled ==
  TextCalled /\ ticketPattern(call.validProjects) = DEFAULT_TICKET_PATTERN

\* The token is made of capitals, one hyphen and digits, in this order.
IsTicketShaped(token) ==
  \E h \in 1..Len(token) :
    /\ token[h] = "-"
    /\ h > 1 /\ h < Len(token)
    /\ \A k \in 1..(h - 1) : token[k] \in UpperCase
    /\ \A k \in (h + 1)..Len(token) : token[k] \in DigitChars

LetterPrefix(token) ==
  SubSeq(token, 1, (CHOOSE h \in 1..Len(token) : token[h] = "-"
                       /\ \A k \in 1..(h - 1) : token[k] # "-") - 1)

\* The tokens of a text: maximal pieces between word boundaries that hold
\* word characters and hyphens only, as <<first, last>> positions.
Delimited(text, i, j) == wordBoundary(text, i) /\ wordBoundary(text, j + 1)

TicketTokens(text) ==
  { <<i, j>> \in (1..Len(text)) \X (1..Len(text)) :
      /\ i <= j
      /\ Delimited(text, i, j)
      /\ IsTicketShaped(SubSeq(text, i, j))
      /\ Len(LetterPrefix(SubSeq(text, i, j))) >= 2 }

\* The tokens the extractor of the call is to accept: those of the default
\* pattern, or with a whitelist those whose prefix is a whitelisted key.
TicketTokensOf(text) ==
  { <<i, j>> \in (1..Len(text)) \X (1..Len(text)) :
      /\ i <= j
      /\ Delimited(text, i, j)
      /\ IsTicketShaped(SubSeq(text, i, j))
      /\ IF call.validProjects # <<>> /\ call.validProjects[1] # <<>>
           THEN \E n \in DOMAIN call.validProjects[1] :
                  LetterPrefix(SubSeq(text, i, j)) = call.validProjects[1][n]
           ELSE Len(LetterPrefix(SubSeq(text, i, j))) >= 2 }

\* C22: the default pattern extracts the tokens made of two or more
\* capitals, a hyphen and one or more digits between word boundaries
\* ("PROJ-123" and "AB-1" are extracted), and never a token whose letter
\* prefix is one letter ("X-9" and "V-1" give no ticket).
C22_DefaultPattern ==
  DefaultPatternCalled =>
    LET text == call.text
        value == ret[1].value
        tokens == TicketTokens(text)
    IN /\ (tokens = {}) = (value = NoTicket)
       /\ value # NoTicket =>
            /\ \E t \in tokens : value = SubSeq(text, t[1], t[2])
            /\ IsTicketShaped(value)
            /\ Len(LetterPrefix(value)) >= 2
       /\ text = <<"P", "R", "O", "J", "-", "1", "2", "3">> => value = text
       /\ text = AB1 => value = text
       /\ text \in { <<"X", "-", "9">>, <<"V", "-", "1">> } => value = NoTicket

\* C22 witness: the default pattern was applied to "X-9" and gave no ticket.
C22_Witness ==
  /\ DefaultPatternCalled
  /\ call.text = <<"X", "-", "9">>
  /\ ret[1].value = NoTicket

\* The default pattern has extracted AB-1 out of a text that holds more.
C22_ExtractedFromLongerText ==
  /\ DefaultPatternCalled
  /\ Len(call.text) > 4
  /\ ret[1].value = AB1

\* C23: without a whitelist, a text whose only ticket-like token is "UTF-8"
\* gives no ticket: extractFromText returns null.
C23_Utf8GivesNoTicket ==
  (/\ DefaultPatternCalled
   /\ call.text \in { <<"U", "T", "F", "-", "8">>,
                      <<"a", " ", "U", "T", "F", "-", "8", " ", "a">> })
  => ret[1].value = NoTicket

\* extractFromText has returned "UTF-8" as a ticket.
C23_Utf8Extracted ==
  /\ DefaultPatternCalled
  /\ ret[1].value = <<"U", "T", "F", "-", "8">>

Range(f) == { f[x] : x \in DOMAIN f }

WhitelistGiven == call.validProjects # <<>> /\ call.validProjects[1] # <<>>

TicketReturned ==
  ret # <<>> /\ ret[1].pc = "returned" /\ ret[1].value # NoTicket

\* C24: with a non-empty whitelist, every ticket returned has a project
\* prefix that is exactly one of the whitelisted keys, also when a token
\* with another prefix is the only or the newest candidate.
C24_OnlyWhitelistedProjects ==
  (WhitelistGiven /\ TicketReturned)
  => /\ IsTicketShaped(ret[1].value)
     /\ LetterPrefix(ret[1].value) \in Range(call.validProjects[1])

\* C24 witness: with the whitelist ["AB"], the newest user message holds
\* BA-2 only and an older one AB-1; extract has returned AB-1.
C24_Witness ==
  /\ call.op = "extract" /\ call.validProjects = << <<AB>> >>
  /\ TicketReturned
  /\ ret[1].messages =
       Resolved(<< << MessageWithParts("user", <<TextPart(AB1, FALSE)>>),
                      MessageWithParts("user", <<TextPart(BA2, FALSE)>>) >> >>)
  /\ ret[1].value = AB1

\* With the whitelist ["AB"], BA-2 was the only candidate in messages and
\* todos and extract has returned null.
C24_OnlyCandidateRejected ==
  /\ call.op = "extract" /\ call.validProjects = << <<AB>> >>
  /\ ret # <<>> /\ ret[1].pc = "returned" /\ ret[1].value = NoTicket
  /\ ret[1].messages =
       Resolved(<< << MessageWithParts("user", <<TextPart(BA2, FALSE)>>) >> >>)
  /\ ret[1].todos = << Resolved(<< <<Todo(BA2)>> >>) >>

\* What extract was given: the messages and todos fetched (none when the
\* fetch failed or gave no data), and the parts and todos that hold a match.
ExtractReturned == call.op = "extract" /\ ret # <<>> /\ ret[1].pc = "returned"

DataOf(result) ==
  IF result.thrown \/ result.data = <<>> THEN <<>> ELSE result.data[1]

FetchedMessages == DataOf(ret[1].messages)

FetchedTodos == IF ret[1].todos = <<>> THEN <<>> ELSE DataOf(ret[1].todos[1])

MatchingParts ==
  { <<i, n>> \in (DOMAIN FetchedMessages) \X (1..2) :
      /\ FetchedMessages[i].role = "user"
      /\ n \in DOMAIN FetchedMessages[i].parts
      /\ FetchedMessages[i].parts[n].type = "text"
      /\ ~FetchedMessages[i].parts[n].synthetic
      /\ TicketTokensOf(FetchedMessages[i].parts[n].text) # {} }

MatchingTodos ==
  { i \in DOMAIN FetchedTodos : TicketTokensOf(FetchedTodos[i].content) # {} }

FirstMatchIn(text) ==
  LET tokens == TicketTokensOf(text)
      t == CHOOSE x \in tokens : \A y \in tokens : x[1] <= y[1]
  IN SubSeq(text, t[1], t[2])

\* The newest matching part: of the newest message, and in it the last part.
NewestPart ==
  CHOOSE p \in MatchingParts :
    \A q \in MatchingParts : q[1] < p[1] \/ (q[1] = p[1] /\ q[2] <= p[2])

\* The part the scan meets first: of the newest message, and in it the
\* first part.
FirstPartOfNewestMessage ==
  CHOOSE p \in MatchingParts :
    \A q \in MatchingParts : q[1] < p[1] \/ (q[1] = p[1] /\ q[2] >= p[2])

NewestTodo == CHOOSE i \in MatchingTodos : \A j \in MatchingTodos : j <= i

FromTodos ==
  IF MatchingTodos = {} THEN NoTicket
  ELSE FirstMatchIn(FetchedTodos[NewestTodo].content)

\* C25: extract returns the first match of the newest user-authored,
\* non-synthetic text part that holds a match; todos, newest first, are
\* consulted only when no such part matches.
C25_NewestMatchingPartWins ==
  ExtractReturned =>
    IF MatchingParts # {}
      THEN /\ ret[1].value
                = FirstMatchIn(FetchedMessages[NewestPart[1]].parts[NewestPart[2]].text)
           /\ ret[1].todos = <<>>
      ELSE ret[1].value = FromTodos

\* The same with the parts of one message taken in their order.
C25_HoldsPerMessage ==
  ExtractReturned =>
    IF MatchingParts # {}
      THEN /\ ret[1].value
                = FirstMatchIn(FetchedMessages[FirstPartOfNewestMessage[1]]
                                 .parts[FirstPartOfNewestMessage[2]].text)
           /\ ret[1].todos = <<>>
      ELSE ret[1].value = FromTodos

\* extract has returned the match of the older of two matching parts of
\* the newest user message.
C25_OlderPartReturned ==
  /\ ExtractReturned /\ MatchingParts # {}
  /\ NewestPart # FirstPartOfNewestMessage
  /\ ret[1].value = AB1

\* The messages fetch failed, gave no data or gave no message.
MessagesGaveNothing ==
  \/ ret[1].messages.thrown
  \/ ret[1].messages.data = <<>>
  \/ ret[1].messages.data[1] = <<>>

TodosFailed == ret[1].todos # <<>> /\ ret[1].todos[1].thrown

\* The ticket resolve takes from the configuration when extract gave null.
ConfiguredDefault(cfg, agentName) ==
  IF agentName # NoName /\ agentName \in DOMAIN cfg.agent_defaults
    THEN cfg.agent_defaults[agentName].issue_key
  ELSE IF cfg.global_default # <<>> THEN cfg.global_default[1].issue_key
  ELSE NULL

\* C26: extract never raises. A failed or empty messages fetch counts as no
\* match and the todos are still scanned; a failed todos fetch counts as no
\* match; when both fail the result is null and resolve goes on with the
\* configured defaults.
C26_ExtractNeverRaises ==
  (call.op = "extract" /\ ret # <<>>) =>
    /\ ret[1].pc # "threw"
    /\ MessagesGaveNothing =>
         \/ ret[1].pc = "todos"
         \/ /\ ret[1].pc = "returned"
            /\ ret[1].todos # <<>>
            /\ ret[1].value = FromTodos
    /\ (ret[1].pc = "returned" /\ TodosFailed) => ret[1].value = NoTicket
    /\ (ret[1].pc = "returned" /\ ret[1].messages.thrown /\ TodosFailed) =>
         /\ ret[1].value = NoTicket
         /\ \A cfg \in ResolveConfigs : \A agentName \in AgentNames \cup {NoName} :
              LET r == resolve(cfg, NULL, agentName)
              IN ~r.thrown => r.ticket = ConfiguredDefault(cfg, agentName)

\* C26 witness: both fetches were rejected and extract has returned null.
C26_Witness ==
  /\ call.op = "extract" /\ ret # <<>>
  /\ ret[1].pc = "returned"
  /\ ret[1].messages.thrown /\ TodosFailed
  /\ ret[1].value = NoTicket

\* The messages fetch was rejected and extract has returned a ticket found
\* in the todos.
C26_TodosScannedAfterFailure ==
  /\ call.op = "extract" /\ ret # <<>>
  /\ ret[1].pc = "returned"
  /\ ret[1].messages.thrown
  /\ ret[1].value = BA2

(***************************************************************************)
(* SpecSessions: direct calls of SessionManager                            *)
(*   call is the last call made and ret holds the map before it and what   *)
(*   the call returned.                                                    *)
(***************************************************************************)
MaxOps == 3         \* SessionManager calls in one behaviour

SessionTickets == {NULL, "ABC-1", "XYZ-2"}
SessionModels == {THE_MODEL, OTHER_MODEL}
SessionTallies == { [ZeroTokens EXCEPT !.input = 1], [ZeroTokens EXCEPT !.cacheRead = 1] }

InitSessions ==
  /\ sessions = <<>>
  /\ now = 0
  /\ call = NoCall
  /\ ret = <<>>
  /\ creates = [id \in AllSessionIds |-> 0]
  /\ configFile = [kind |-> "absent", time_tracking |-> <<>>]
  /\ hookVersion = "getAndDelete"
  /\ pluginPc = "init"
  /\ config = <<>>
  /\ hooks = {}
  /\ csvFile = <<>>
  /\ csvInitial = <<>>
  /\ processingSessions = {}
  /\ handlers = {}
  /\ finished = {}

sessionsFrame == <<configFile, hookVersion, pluginPc, config, hooks, csvFile,
                   csvInitial, processingSessions, handlers, finished>>

\* One call: the clock advances, the map becomes `after`, and the call is
\* kept with the map it found and the value it returned (<<>> for void).
SessionCall(op, sid, after, result) ==
  /\ now < MaxOps
  /\ now' = now + 1
  /\ sessions' = after
  /\ call' = [op |-> op, sid |-> sid]
  /\ ret' = <<[before |-> sessions, result |-> result]>>
  /\ creates' = IF op = "create" THEN [creates EXCEPT ![sid] = @ + 1]
                ELSE creates
  /\ UNCHANGED sessionsFrame

CallCreate(sid, ticket) ==
  SessionCall("create", sid, create(sessions, sid, ticket, now + 1),
              <<NewSession(ticket, now + 1)>>)

CallDelete(sid) ==
  SessionCall("delete", sid, delete(sessions, sid), <<>>)

CallAddActivity(sid, tool) ==
  SessionCall("addActivity", sid,
              addActivity(sessions, sid,
                          [tool |-> tool, timestamp |-> now + 1, file |-> UNDEF]),
              <<>>)

CallAddTokenUsage(sid, tokens) ==
  SessionCall("addTokenUsage", sid, addTokenUsage(sessions, sid, tokens), <<>>)

CallUpdateTicket(sid, ticket) ==
  SessionCall("updateTicket", sid, updateTicket(sessions, sid, ticket), <<>>)

CallSetModel(sid, model) ==
  SessionCall("setModel", sid, setModel(sessions, sid, model), <<>>)

NextSessions ==
  \E sid \in AllSessionIds :
    \/ \E ticket \in SessionTickets : CallCreate(sid, ticket)
    \/ CallDelete(sid)
    \/ \E tool \in Tools : CallAddActivity(sid, tool)
    \/ \E tokens \in SessionTallies : CallAddTokenUsage(sid, tokens)
    \/ \E ticket \in SessionTickets : CallUpdateTicket(sid, ticket)
    \/ \E model \in SessionModels : CallSetModel(sid, model)

SpecSessions == InitSessions /\ [][NextSessions]_vars

(***************************************************************************)
(* Properties of SessionManager (SpecSessions)                             *)
(***************************************************************************)
Called(op) == ret # <<>> /\ call.op = op

FoundInMap == call.sid \in DOMAIN ret[1].before

\* C27: create called with an id that is already in the map is a no-op
\* that returns the existing state: startTime, activities, token totals,
\* ticket and model of the existing session are left unchanged.
C27_CreateKeepsExisting ==
  (Called("create") /\ FoundInMap) =>
    /\ sessions = ret[1].before
    /\ ret[1].result = <<ret[1].before[call.sid]>>

\* create was called for an id whose session held an activity, and the
\* session in the map has none afterwards.
C27_ExistingReplaced ==
  /\ Called("create") /\ FoundInMap
  /\ Len(ret[1].before[call.sid].activities) > 0
  /\ sessions[call.sid].activities = <<>>

\* create called with an id that is not in the map inserts a zeroed session
\* and leaves the other sessions as they were.
C27_HoldsForNewId ==
  (Called("create") /\ ~FoundInMap) =>
    /\ sessions[call.sid] = ret[1].result[1]
    /\ sessions[call.sid].activities = <<>>
    /\ sessions[call.sid].tokenUsage = ZeroTokens
    /\ \A id \in DOMAIN ret[1].before : sessions[id] = ret[1].before[id]

Updaters == {"addActivity", "addTokenUsage", "updateTicket", "setModel"}

\* C30: addActivity, addTokenUsage, updateTicket and setModel called with an
\* id that is not in the map change nothing: no session is created and
\* every other session is as it was.
C30_AbsentIdChangesNothing ==
  (ret # <<>> /\ call.op \in Updaters /\ ~FoundInMap) =>
    /\ sessions = ret[1].before
    /\ call.sid \notin DOMAIN sessions

\* C30 witness: updateTicket was called for an id that is not in the map
\* while another session with an activity is.
C30_Witness ==
  /\ Called("updateTicket") /\ ~FoundInMap
  /\ \E id \in DOMAIN sessions :
       id # call.sid /\ Len(sessions[id].activities) > 0

(***************************************************************************)
(* Properties of a session's ticket and model while it is in the map (Spec)*)
(***************************************************************************)
\* The step leaves the same session instance under the id.
StaysInMap(sid) ==
  has(sessions, sid) /\ has(sessions', sid) /\ creates'[sid] = creates[sid]

\* C28: while a session stays in the map, its ticket, once non-null, is
\* never set back to null, whatever the extractions of later
\* tool.execute.after events return.
C28_TicketNeverCleared ==
  [][\A sid \in SessionIds :
       (StaysInMap(sid) /\ sessions[sid].ticket # NULL)
       => sessions'[sid].ticket # NULL]_vars

\* C28 witness: a tool.execute.after whose extraction found ABC-1 was
\* handled to its end, then one whose extraction gave null, and the
\* session's ticket is ABC-1.
C28_Witness ==
  /\ has(sessions, "s1") /\ sessions["s1"].ticket = "ABC-1"
  /\ Len(sessions["s1"].activities) = 2
  /\ sessions["s1"].activities[1].timestamp = 1
  /\ sessions["s1"].activities[2].timestamp = 2
  /\ \E h1, h2 \in finished :
       /\ h1.kind = "tool" /\ h1.id = 1 /\ h1.extracted = "ABC-1"
       /\ h2.kind = "tool" /\ h2.id = 2 /\ h2.extracted = NULL

\* C29: while a session stays in the map, its model is set at most once:
\* once set, no later message changes it.
C29_ModelSetOnce ==
  [][\A sid \in SessionIds :
       (StaysInMap(sid) /\ sessions[sid].model # <<>>)
       => sessions'[sid].model = sessions[sid].model]_vars

\* C29 witness: the session's model is the one of its first assistant
\* message, and its agent was detected from a later message that carried
\* another model.
C29_Witness ==
  /\ has(sessions, "s1")
  /\ sessions["s1"].model = <<OTHER_MODEL>>
  /\ sessions["s1"].agent # <<>>
  /\ sessions["s1"].agent[1].name = AtDev
  /\ sessions["s1"].agent[1].timestamp > sessions["s1"].startTime

(***************************************************************************)
(* Properties of a tool.execute.after that completes (Spec)                *)
(***************************************************************************)
\* The tool.execute.after invocations that end with the step.
ToolCompletions == { h \in finished' \ finished : h.kind = "tool" }

\* The ActivityRecord the invocation hands to addActivity.
ActivityOf(h, time) == [tool |-> h.tool, timestamp |-> time, file |-> h.file]

\* C31: every tool.execute.after that completes leaves its session in the
\* map with one ActivityRecord for the call appended, also when a
\* session.idle for the id was handled while the hook was suspended in the
\* ticket extraction.
C31_CompletedToolCallRecorded ==
  [][\A h \in ToolCompletions :
       /\ has(sessions', h.sid)
       /\ Len(sessions'[h.sid].activities) > 0
       /\ sessions'[h.sid].activities[Len(sessions'[h.sid].activities)]
            = ActivityOf(h, now)]_vars

\* The same for a completion that finds the id in the map: the record is
\* appended to the session that is there.
C31_HoldsWhileInMap ==
  [][\A h \in ToolCompletions :
       has(sessions, h.sid)
       => /\ has(sessions', h.sid)
          /\ sessions'[h.sid].activities
               = Append(sessions[h.sid].activities, ActivityOf(h, now))]_vars

\* A tool.execute.after has completed, a session.idle for its id was
\* handled after the hook began, and the call is in no session, in no
\* popped state and in no row.
C31_LostCallReached ==
  /\ \E h \in finished : h.kind = "tool"
  /\ \A sid \in SessionIds : ~has(sessions, sid)
  /\ \A h \in handlers \cup finished :
       h.kind = "idle" /\ h.popped # <<>> => h.popped[1].activities = <<>>
  /\ csvFile # <<>> => \A k \in 1..Len(csvFile[1].rows) :
                         csvFile[1].rows[k].activities = <<>>

(***************************************************************************)
(* Specification of CsvFormatter.escape and of the row CsvWriter.write     *)
(* builds from an escaped description and notes: call holds the two        *)
(* strings, ret the result of escape and then the written line.            *)
(***************************************************************************)
MaxEscapeLen == 4   \* symbols of a description handed to escape

EscapeChars == {QUOTE, COMMA, "a"}

EscapeTexts == UNION { [1..n -> EscapeChars] : n \in 0..MaxEscapeLen }

\* Notes as the idle handler builds them, `Auto-tracked: ${toolSummary}`,
\* with tool names that hold quotes.
NotesTexts ==
  { <<"Auto-tracked:", SP, "edit(1x)">>,
    <<"Auto-tracked:", SP, QUOTE, "(1x)">>,
    <<"Auto-tracked:", SP, QUOTE, QUOTE, "x", QUOTE, "(2x),", SP, "read(1x)">> }

EscapeData(description, notes) ==
  [ticket |-> "ABC-1", accountKey |-> "TD_DEV", startTime |-> 1,
   endTime |-> 3, durationSeconds |-> 2, description |-> description,
   notes |-> notes, tokenUsage |-> ZeroTokens, model |-> NULL,
   agent |-> NULL, cost |-> 0]

InitEscape ==
  /\ call \in { [op |-> "escape", description |-> d, notes |-> n] :
                  d \in EscapeTexts, n \in NotesTexts }
  /\ ret = <<>>
  /\ csvFile \in {<<>>, <<CSV_HEADER \o <<NL>> >>}
  /\ csvInitial = csvFile
  /\ configFile = [kind |-> "absent", time_tracking |-> <<>>]
  /\ hookVersion = "getAndDelete"
  /\ pluginPc = "init"
  /\ config = <<>>
  /\ hooks = {}
  /\ sessions = <<>>
  /\ processingSessions = {}
  /\ handlers = {}
  /\ finished = {}
  /\ creates = [id \in AllSessionIds |-> 0]
  /\ now = 0

\* CsvFormatter.escape(description)
CallEscape ==
  /\ ret = <<>>
  /\ ret' = <<[op |-> "escape", value |-> call.description,
               result |-> escape(call.description), line |-> <<>>]>>
  /\ UNCHANGED <<csvFile, csvFrame>>

\* csvWriter.write of a record with that description and notes
CallWriteEscaped ==
  /\ Len(ret) = 1
  /\ LET data == EscapeData(call.description, call.notes)
         line == csvLine(fields(data, randomUUID(1), USER_EMAIL))
     IN /\ csvFile' = write(csvFile, line)
        /\ ret' = Append(ret, [op |-> "write", value |-> call.notes,
                               result |-> escape(call.notes), line |-> line])
  /\ UNCHANGED csvFrame

NextEscape ==
  \/ CallEscape
  \/ CallWriteEscaped

SpecEscape == InitEscape /\ [][NextEscape]_vars

(***************************************************************************)
(* Properties of CsvFormatter.escape (SpecEscape)                          *)
(***************************************************************************)
QuotesBefore(s, k) == Cardinality({ q \in 1..(k - 1) : s[q] = QUOTE })

\* e is s with every double quote doubled and nothing else changed.
EveryQuoteDoubled(s, e) ==
  /\ Len(e) = Len(s) + QuotesBefore(s, Len(s) + 1)
  /\ \A k \in DOMAIN s :
       /\ e[k + QuotesBefore(s, k)] = s[k]
       /\ s[k] = QUOTE => e[k + QuotesBefore(s, k) + 1] = QUOTE

\* The quotes of a text come in runs of even length.
NoUndoubledQuote(text) ==
  \A k \in DOMAIN text :
    (text[k] = QUOTE /\ (k = 1 \/ text[k - 1] # QUOTE))
    => LET after == { j \in k..(Len(text) + 1) :
                        j = Len(text) + 1 \/ text[j] # QUOTE }
           end == CHOOSE j \in after : \A m \in after : j <= m
       IN (end - k) % 2 = 0

Between(column) == SubSeq(column, 2, Len(column) - 1)

EscapeCalled == Len(ret) >= 1 /\ ret[1].op = "escape"
WriteEscapedCalled == Len(ret) = 2 /\ ret[2].op = "write"

\* C32: escape doubles every double quote and changes nothing else, so
\* replacing each doubled quote of escape(s) by a single quote gives s back;
\* in a written row the description and notes columns hold no undoubled
\* quote between their wrapping quotes.
C32_EscapeDoublesQuotes ==
  /\ EscapeCalled
     => /\ EveryQuoteDoubled(ret[1].value, ret[1].result)
        /\ HalveQuotes(ret[1].result) = ret[1].value
  /\ WriteEscapedCalled
     => LET columns == ReadColumns(ret[2].line)
        IN /\ Len(columns) = CSV_COLUMN_COUNT
           /\ \A j \in {14, 15} :
                /\ IsQuoted(columns[j])
                /\ NoUndoubledQuote(Between(columns[j]))
           /\ ValueOf(columns[14]) = call.description
           /\ ValueOf(columns[15]) = call.notes
           /\ LinesOf(csvFile)[Len(LinesOf(csvFile))] = ret[2].line

\* C32 witness: a description with two adjacent quotes and a third one was
\* escaped to six quotes and written, with notes that hold three quotes.
C32_Witness ==
  /\ WriteEscapedCalled
  /\ ret[1].value = <<QUOTE, QUOTE, COMMA, QUOTE>>
  /\ ret[1].result = <<QUOTE, QUOTE, QUOTE, QUOTE, COMMA, QUOTE, QUOTE>>
  /\ QuotesBefore(call.notes, Len(call.notes) + 1) = 3

(***************************************************************************)
(* DescriptionGenerator.  A description is a text: a sequence of symbols,  *)
(* the characters COMMA and SP and words (a number, a label, a file name). *)
(* Tool names are names no object inherits a property for, so that         *)
(* acc[a.tool] is undefined until the tool was counted.                    *)
(***************************************************************************)
\* activities.reduce((acc, a) => { acc[a.tool] = (acc[a.tool] || 0) + 1 }):
\* the own keys in insertion order and the count under each.
RECURSIVE countTools(_)
countTools(activities) ==
  IF activities = <<>> THEN [keys |-> <<>>, count |-> <<>>]
  ELSE LET acc == countTools(SubSeq(activities, 1, Len(activities) - 1))
           tool == activities[Len(activities)].tool
       IN IF tool \in DOMAIN acc.count
            THEN [acc EXCEPT !.count[tool] = @ + 1]
            ELSE [keys |-> Append(acc.keys, tool),
                  count |-> [t \in DOMAIN acc.count \cup {tool} |->
                               IF t = tool THEN 1 ELSE acc.count[t]]]

\* toolCounts.x || 0
countOrZero(toolCounts, tool) ==
  IF tool \in DOMAIN toolCounts.count THEN toolCounts.count[tool] ELSE 0

fileEditsEditOnly(toolCounts) == countOrZero(toolCounts, "edit")

\* (toolCounts.edit || 0) + (toolCounts.write || 0)
fileEdits(toolCounts) ==
  countOrZero(toolCounts, "edit") + countOrZero(toolCounts, "write")

\* (toolCounts.glob || 0) + (toolCounts.grep || 0)
searches(toolCounts) ==
  countOrZero(toolCounts, "glob") + countOrZero(toolCounts, "grep")

\* activity.file.split("/").pop() || activity.file, for a file given by its
\* segments (<<>> when the activity has no file)
RECURSIVE pathOf(_)
pathOf(segments) ==
  IF Len(segments) = 1 THEN segments[1]
  ELSE segments[1] \o "/" \o pathOf(Tail(segments))

fileName(file) ==
  IF file[Len(file)] # "" THEN file[Len(file)] ELSE pathOf(file)

\* The Set filesWorkedOn in insertion order.
RECURSIVE filesWorkedOn(_)
filesWorkedOn(activities) ==
  IF activities = <<>> THEN <<>>
  ELSE LET seen == filesWorkedOn(SubSeq(activities, 1, Len(activities) - 1))
           file == activities[Len(activities)].file
       IN IF file = <<>> \/ \E k \in DOMAIN seen : seen[k] = fileName(file)
            THEN seen
            ELSE Append(seen, fileName(file))

\* `${n} ${label}`
counted(n, label) == <<ToString(n), SP, label>>

pushIf(list, condition, item) ==
  IF condition THEN Append(list, item) ELSE list

generate(activities) ==
  IF Len(activities) = 0 THEN <<"No activities tracked">>
  ELSE
    LET toolCounts == countTools(activities)
        files == filesWorkedOn(activities)
        m1 == pushIf(<<>>, fileEdits(toolCounts) > 0,
                     counted(fileEdits(toolCounts), "file edit(s)"))
        m2 == pushIf(m1, countOrZero(toolCounts, "read") > 0,
                     counted(countOrZero(toolCounts, "read"), "file read(s)"))
        m3 == pushIf(m2, countOrZero(toolCounts, "bash") > 0,
                     counted(countOrZero(toolCounts, "bash"), "command(s)"))
        mainActivities ==
              pushIf(m3, searches(toolCounts) > 0,
                     counted(searches(toolCounts), "search(es)"))
        description ==
          IF Len(mainActivities) > 0
            THEN join(mainActivities, <<COMMA, SP>>)
            ELSE counted(Len(activities), "tool call(s)")
    IN IF Len(files) > 0 /\ Len(files) <= 5
         THEN description \o <<SP, "-", SP, "Files:", SP>>
              \o join([k \in DOMAIN files |-> <<files[k]>>], <<COMMA, SP>>)
       ELSE IF Len(files) > 5
         THEN description \o <<SP, "-", SP, ToString(Len(files)), SP, "files">>
       ELSE description

\* Object.entries(toolCounts).map(([t, c]) => `${t}(${c}x)`).join(", ")
generateToolSummary(activities) ==
  LET toolCounts == countTools(activities)
  IN join([k \in DOMAIN toolCounts.keys |->
             <<toolCounts.keys[k], "(", ToString(toolCounts.count[toolCounts.keys[k]]), "x)">>],
          <<COMMA, SP>>)

(***************************************************************************)
(* Specification of DescriptionGenerator called on an activity list: call  *)
(* holds the list, ret the results of the calls made so far.               *)
(***************************************************************************)
MaxActivities == 3   \* activities of a list, all lists up to it are tried

ToolNames == {"edit", "write", "read", "bash", "glob", "grep", "task"}

ActivityFiles == {<<>>, <<"src", "a.ts">>}

Activity(tool, file) == [tool |-> tool, timestamp |-> 1, file |-> file]

Activities == { Activity(t, f) : t \in ToolNames, f \in ActivityFiles }

\* The list of the end-to-end scenario (edit three times, read twice), a
\* list of tools of no group, and lists that touch six files and a
\* directory.
ExampleActivityLists ==
  { << Activity("edit", <<"a.ts">>), Activity("read", <<"b.ts">>),
       Activity("edit", <<"a.ts">>), Activity("read", <<>>),
       Activity("edit", <<"src", "c.ts">>) >>,
    << Activity("task", <<>>), Activity("webfetch", <<>>),
       Activity("task", <<>>), Activity("todowrite", <<>>) >>,
    << Activity("write", <<"a">>), Activity("write", <<"b">>),
       Activity("grep", <<"c">>), Activity("glob", <<"d">>),
       Activity("bash", <<"e">>), Activity("write", <<"src", "">>) >> }

ActivityLists ==
  UNION { [1..n -> Activities] : n \in 0..MaxActivities }
    \cup ExampleActivityLists

InitDescribe ==
  /\ call \in { [op |-> "describe", activities |-> a] : a \in ActivityLists }
  /\ ret = <<>>
  /\ csvFile = <<>>
  /\ csvInitial = csvFile
  /\ configFile = [kind |-> "absent", time_tracking |-> <<>>]
  /\ hookVersion = "getAndDelete"
  /\ pluginPc = "init"
  /\ config = <<>>
  /\ hooks = {}
  /\ sessions = <<>>
  /\ processingSessions = {}
  /\ handlers = {}
  /\ finished = {}
  /\ creates = [id \in AllSessionIds |-> 0]
  /\ now = 0

\* DescriptionGenerator.generate(session.activities)
CallGenerate ==
  /\ ret = <<>>
  /\ ret' = <<[op |-> "generate", result |-> generate(call.activities)]>>
  /\ UNCHANGED <<csvFile, csvFrame>>

\* DescriptionGenerator.generateToolSummary(session.activities)
CallGenerateToolSummary ==
  /\ Len(ret) = 1
  /\ ret' = Append(ret, [op |-> "generateToolSummary",
                         result |-> generateToolSummary(call.activities)])
  /\ UNCHANGED <<csvFile, csvFrame>>

NextDescribe ==
  \/ CallGenerate
  \/ CallGenerateToolSummary

SpecDescribe == InitDescribe /\ [][NextDescribe]_vars

(***************************************************************************)
(* Properties of DescriptionGenerator (SpecDescribe)                       *)
(***************************************************************************)
GenerateCalled == Len(ret) >= 1 /\ ret[1].op = "generate"
ToolSummaryCalled == Len(ret) = 2 /\ ret[2].op = "generateToolSummary"

\* The number of activities of the list whose tool is one of T.
NumberOf(T) ==
  Cardinality({ k \in DOMAIN call.activities : call.activities[k].tool \in T })

Groups ==
  << [tools |-> {"edit", "write"}, label |-> "file edit(s)"],
     [tools |-> {"read"}, label |-> "file read(s)"],
     [tools |-> {"bash"}, label |-> "command(s)"],
     [tools |-> {"glob", "grep"}, label |-> "search(es)"] >>

GroupLabels == { Groups[g].label : g \in DOMAIN Groups }

\* The description without the files it may end with.
MainPart(description) ==
  LET dashes == { k \in DOMAIN description : description[k] = "-" }
  IN IF dashes = {} THEN description
     ELSE SubSeq(description, 1,
                 (CHOOSE k \in dashes : \A m \in dashes : k <= m) - 2)

\* The positions of the labels of a text, and the number in front of each.
LabelsAt(text) ==
  { k \in DOMAIN text : text[k] \in GroupLabels \cup {"tool call(s)"} }

Reports(text, n, label) ==
  \E k \in LabelsAt(text) :
    /\ text[k] = label /\ k >= 3
    /\ text[k - 1] = SP /\ text[k - 2] = ToString(n)
    /\ \A m \in LabelsAt(text) : text[m] = label => m = k

\* The groups appear in the order of Groups, separated by ", ".
InGroupOrder(text) ==
  /\ \A k, m \in LabelsAt(text) :
       k < m => \E g, i \in DOMAIN Groups :
                  g < i /\ text[k] = Groups[g].label /\ text[m] = Groups[i].label
  /\ Len(text) = 5 * Cardinality(LabelsAt(text)) - 2
  /\ \A k \in LabelsAt(text) :
       k < Len(text) => text[k + 1] = COMMA /\ text[k + 2] = SP

\* The entries of a tool summary: the positions of its tool names.
EntriesAt(text) == { k \in DOMAIN text : k % 6 = 1 }

\* C33: for a non-empty list generate reports each group's number of
\* activities (edit plus write, read, bash, glob plus grep), the non-zero
\* groups only and in that order, and "N tool call(s)" with N the length of
\* the list exactly when all four are zero; generateToolSummary lists each
\* distinct tool once, with counts that sum to the length of the list.
C33_DescriptionCountsGroups ==
  /\ (GenerateCalled /\ call.activities # <<>>)
     => LET main == MainPart(ret[1].result)
        IN /\ \A g \in DOMAIN Groups :
                IF NumberOf(Groups[g].tools) > 0
                  THEN Reports(main, NumberOf(Groups[g].tools), Groups[g].label)
                  ELSE \A k \in LabelsAt(main) : main[k] # Groups[g].label
           /\ IF \A g \in DOMAIN Groups : NumberOf(Groups[g].tools) = 0
                THEN main = <<ToString(Len(call.activities)), SP, "tool call(s)">>
                ELSE /\ \A k \in LabelsAt(main) : main[k] # "tool call(s)"
                     /\ InGroupOrder(main)
  /\ (ToolSummaryCalled /\ call.activities # <<>>)
     => LET text == ret[2].result
            used == { call.activities[k].tool : k \in DOMAIN call.activities }
        IN /\ Len(text) = 6 * Cardinality(used) - 2
           /\ { text[k] : k \in EntriesAt(text) } = used
           /\ \A k \in EntriesAt(text) :
                /\ text[k + 1] = "(" /\ text[k + 3] = "x)"
                /\ text[k + 2] = ToString(NumberOf({text[k]}))
                /\ k + 3 < Len(text) => text[k + 4] = COMMA /\ text[k + 5] = SP

\* C33 witness: the scenario's list, three edits and two reads, gives
\* "3 file edit(s), 2 file read(s)" and "edit(3x), read(2x)".
C33_Witness ==
  /\ ToolSummaryCalled
  /\ NumberOf({"edit"}) = 3 /\ NumberOf({"read"}) = 2
  /\ MainPart(ret[1].result)
       = <<"3", SP, "file edit(s)", COMMA, SP, "2", SP, "file read(s)">>
  /\ ret[2].result = <<"edit", "(", "3", "x)", COMMA, SP, "read", "(", "2", "x)">>

\* A list of four calls of tools of no group gives "4 tool call(s)".
C33_FallbackReached ==
  /\ GenerateCalled
  /\ Len(call.activities) = 4
  /\ ret[1].result = <<"4", SP, "tool call(s)">>

\* A list with write, grep, glob and bash on six files reports the two
\* sums and the number of files.
C33_SumsReached ==
  /\ GenerateCalled
  /\ ret[1].result
       = <<"3", SP, "file edit(s)", COMMA, SP, "1", SP, "command(s)", COMMA, SP,
           "2", SP, "search(es)", SP, "-", SP, "6", SP, "files">>

(***************************************************************************)
(* Properties of interleaved idle handlers of two sessions (SpecIdle)      *)
(***************************************************************************)
\* The idle invocations that have ended after their Bun.write succeeded.
WroteRow == { h \in finished : h.kind = "idle" /\ h.rows = 1 }

RowIdsInFile ==
  IF csvFile = <<>> THEN {}
  ELSE { csvFile[1].rows[k].id : k \in DOMAIN csvFile[1].rows }

\* C34: when the idle handlers of two distinct sessions that both have
\* activity interleave at their await points, the file holds both
\* sessions' rows once both handlers have finished.
C34_BothRowsKept ==
  \A h1, h2 \in WroteRow :
    (h1.sid # h2.sid /\ handlers = {})
    => {h1.id, h2.id} \subseteq RowIdsInFile

\* Both handlers have finished after a successful Bun.write each, and the
\* file holds the row of one of them only.
C34_RowLostReached ==
  /\ handlers = {}
  /\ \E h1, h2 \in WroteRow :
       /\ h1.sid # h2.sid
       /\ h2.id \in RowIdsInFile
       /\ h1.id \notin RowIdsInFile
       /\ Len(csvFile[1].rows) = 1

\* A Bun.write of a handler whose view of the file is still the file (no
\* other write came between its read and its write) adds its row and keeps
\* the rows that are there.
C34_HoldsWhenContentIsCurrent ==
  [][\A h \in handlers :
       (h.pc \in {"append", "writeNew"} /\ h.content = csvFile
          /\ csvFile' # csvFile /\ h \notin handlers')
       => RowIdsInFile' = RowIdsInFile \cup {h.id}]_vars

(***************************************************************************)
(* Properties of the ticket of a written row (Spec)                        *)
(***************************************************************************)
\* The idle invocation that wrote the k-th row of the file.
WriterOf(k) == CHOOSE h \in IdleInvocations : h.id = RowsInFile[k].id

\* The tickets an extraction from the session's context can give.
ContextTickets == ExtractResults \ {NULL}

\* The issue keys the configuration names as defaults.
DefaultTickets ==
  { config[1].agent_defaults[a].issue_key : a \in DOMAIN config[1].agent_defaults }
    \cup { config[1].global_default[k].issue_key :
             k \in DOMAIN config[1].global_default }

StoredTicketRows ==
  { k \in DOMAIN RowsInFile : WriterOf(k).popped[1].ticket # NULL }

\* C35: when the session's stored ticket was set to a non-null value by a
\* tool.execute.after extraction, the row written at the session's idle
\* carries a ticket extracted from the context, never an agent default or
\* the global default.
C35_StoredTicketBeatsDefaults ==
  \A k \in StoredTicketRows :
    /\ RowsInFile[k].ticket \in ContextTickets
    /\ RowsInFile[k].ticket \notin DefaultTickets

\* The same for the handler that writes the stored ticket (ticket:
\* session.ticket): the row carries the session's ticket.
C35_HoldsWithStoredTicket ==
  \A k \in StoredTicketRows :
    hookVersion = "processingSessions"
    => /\ RowsInFile[k].ticket = WriterOf(k).popped[1].ticket
       /\ RowsInFile[k].ticket \in ContextTickets

\* A tool.execute.after extraction stored ABC-1 in the session, and the
\* session's row carries the global default.
C35_DefaultWrittenReached ==
  \E k \in StoredTicketRows :
    /\ WriterOf(k).popped[1].ticket = "ABC-1"
    /\ RowsInFile[k].ticket = "GHI-3"
    /\ \E t \in finished :
         t.kind = "tool" /\ t.sid = WriterOf(k).sid /\ t.extracted = "ABC-1"

(***************************************************************************)
(* Properties of the notifications of an idle handler (Spec)               *)
(***************************************************************************)
\* C36: the "Failed to save entry" notification is requested only when
\* csvWriter.write raised: once the row has been appended no failure
\* notification follows, even if showing the success notification fails.
C36_FailureNotifiedOnlyForFailedWrite ==
  \A h \in IdleInvocations :
    /\ "error" \in ToastsOf(h) => h.writeRaised
    /\ h.rows = 1 => "error" \notin ToastsOf(h)

\* What the handler does: the failure notification is requested after a
\* raised write, and after a success notification that was requested for a
\* written row; in no other case.
C36_FailureAfterWriteOrSuccessToast ==
  \A h \in IdleInvocations :
    "error" \in ToastsOf(h)
    => \/ h.writeRaised /\ h.rows = 0 /\ h.toasts = <<"error">>
       \/ ~h.writeRaised /\ h.rows = 1 /\ h.toasts = <<"success", "error">>

\* The row is in the file, showing the success notification failed, and
\* the failure notification was requested.
C36_FailureAfterRowReached ==
  \E h \in finished :
    /\ h.kind = "idle" /\ h.rows = 1 /\ ~h.writeRaised
    /\ h.toasts = <<"success", "error">>
    /\ h.id \in RowIdsInFile

(***************************************************************************)
(* Properties of processingSessions (Spec, processingSessions variant)     *)
(***************************************************************************)
RunningIdle(sid) == \E h \in handlers : h.kind = "idle" /\ h.sid = sid

\* C37: a session id is in processingSessions only while an idle handler
\* for that id is running: every handler that adds the id removes it before
\* it ends, on every path, a failed write and a failed notification
\* included.
C37_InSetOnlyWhileRunning ==
  \A sid \in processingSessions : RunningIdle(sid)

\* C37, its consequence: a session.idle is skipped as a duplicate only
\* while an earlier handler for the id is running.
C37_SkippedOnlyWhileRunning ==
  [][\A h \in finished' \ finished :
       (h.kind = "idle" /\ h.duplicate) => RunningIdle(h.sid)]_vars

\* What the handler does: an id stays in the set after its handler has
\* ended only when the handler ended by the rejected failure notification.
C37_HoldsUnlessErrorToastRejects ==
  \A sid \in processingSessions :
    \/ RunningIdle(sid)
    \/ \E h \in finished :
         /\ h.kind = "idle" /\ h.sid = sid /\ h.pc = "threw"
         /\ h.toasts[Len(h.toasts)] = "error"

\* The handler that added s1 has ended, no handler is running, s1 is still
\* in the set, and a later session.idle for s1 was skipped as a duplicate.
C37_StuckIdReached ==
  /\ handlers = {}
  /\ "s1" \in processingSessions
  /\ \E h, h2 \in finished :
       /\ h.kind = "idle" /\ h.sid = "s1" /\ h.pc = "threw"
       /\ h2.kind = "idle" /\ h2.sid = "s1" /\ h2.duplicate /\ h2.id > h.id

(***************************************************************************)
(* Specification of the hooks for a session that is written more than      *)
(* once: the hooks are installed, s1 holds one activity, and the host      *)
(* delivers any events for s1.                                             *)
(***************************************************************************)
InitReuse ==
  /\ configFile = [kind |-> "ok", time_tracking |-> <<CfgA>>]
  /\ hookVersion \in {"getAndDelete", "processingSessions"}
  /\ pluginPc = "returned"
  /\ config = load(configFile)
  /\ hooks = AllHooks
  /\ csvFile = HeaderOnly
  /\ csvInitial = csvFile
  /\ sessions = [id \in SessionIds |-> ToolRan(0)]
  /\ processingSessions = {}
  /\ handlers = {}
  /\ finished = {}
  /\ creates = [id \in AllSessionIds |-> IF id \in SessionIds THEN 1 ELSE 0]
  /\ now = 0
  /\ call = NoCall
  /\ ret = <<>>

\* The events delivered: tool calls on one file, assistant messages that
\* name a model and no agent, step-finish parts with one input token, and
\* session.idle.
NextReuse ==
  \/ \E sid \in SessionIds : ToolBegin(sid, "edit", [title |-> "src/b.ts", metadata |-> <<>>])
  \/ \E h \in handlers, ticket \in ExtractResults : ToolExtractDone(h, ticket)
  \/ \E sid \in SessionIds : MessageUpdated(sid, Message("assistant", TRUE, NoName))
  \/ \E sid \in SessionIds :
       PartUpdated(sid, [type |-> "step-finish",
                         tokens |-> [ZeroTokens EXCEPT !.input = 1]])
  \/ \E sid \in SessionIds : IdleBeginPop(sid)
  \/ \E sid \in SessionIds : IdleBeginProcessing(sid)
  \/ \E h \in handlers, title \in SummaryTitles : IdleSummaryDone(h, title)
  \/ \E h \in handlers, ticket \in ExtractResults : IdleResolveDone(h, ticket)
  \/ \E h \in handlers, ok \in BOOLEAN : WriteExists(h, ok)
  \/ \E h \in handlers, ok \in BOOLEAN : WriteText(h, ok)
  \/ \E h \in handlers, ok \in BOOLEAN : WriteAppend(h, ok)
  \/ \E h \in handlers, ok \in BOOLEAN : ToastSuccess(h, ok)
  \/ \E h \in handlers, ok \in BOOLEAN : ToastError(h, ok)

SpecReuse == InitReuse /\ [][NextReuse]_vars

(***************************************************************************)
(* Properties of the rows of one session id (SpecReuse)                    *)
(***************************************************************************)
\* The pairs of rows of one id, the first written by the handler that
\* popped earlier.
RowPairs ==
  { p \in (DOMAIN RowsInFile) \X (DOMAIN RowsInFile) :
      /\ WriterOf(p[1]).sid = WriterOf(p[2]).sid
      /\ WriterOf(p[1]).endTime < WriterOf(p[2]).endTime }

TimestampsOf(row) ==
  { row.activities[i].timestamp : i \in DOMAIN row.activities }

\* C38: no ActivityRecord and no token delta is counted in more than one
\* row: a later row for the same id holds only the activities and tokens
\* recorded after the pop of the earlier one, and its start time is not
\* earlier than the end time of the earlier row.
C38_NothingCountedTwice ==
  /\ \A k1, k2 \in DOMAIN RowsInFile :
       k1 # k2 => RowsInFile[k1].id # RowsInFile[k2].id
  /\ \A p \in RowPairs :
       LET earlier == RowsInFile[p[1]]
           later == RowsInFile[p[2]]
           sid == WriterOf(p[2]).sid
           parts == StepFinishesOf(sid, WriterOf(p[2]).createsAtPop)
       IN /\ later.startTime >= earlier.endTime
          /\ WriterOf(p[1]).createsAtPop < WriterOf(p[2]).createsAtPop
          /\ \A t \in TimestampsOf(earlier) : t <= earlier.endTime
          /\ \A t \in TimestampsOf(later) : t >= earlier.endTime
          /\ later.tokenUsage = SumOfTokens(parts)
          /\ \A part \in parts : part.id > earlier.endTime
          /\ StepFinishesOf(sid, WriterOf(p[1]).createsAtPop) \cap parts = {}

\* C38 witness: s1 was written with its first activity, a second tool call
\* was recorded after the pop, and the second row holds that call only.
C38_Witness ==
  \E p \in RowPairs :
    /\ Len(RowsInFile[p[1]].activities) = 1
    /\ Len(RowsInFile[p[2]].activities) = 1
    /\ RowsInFile[p[1]].activities[1].timestamp = 0
    /\ RowsInFile[p[2]].activities[1].timestamp > RowsInFile[p[1]].endTime

\* The second row holds tokens only, those of the step-finish part handled
\* after the pop.
C38_TokensOnlyRowReached ==
  \E p \in RowPairs :
    /\ RowsInFile[p[2]].activities = <<>>
    /\ RowsInFile[p[2]].tokenUsage = [ZeroTokens EXCEPT !.input = 1]
    /\ RowsInFile[p[1]].tokenUsage = ZeroTokens

(***************************************************************************)
(* Properties of the data rows across ensureHeader (SpecCsv)               *)
(***************************************************************************)
\* C39: ensureHeader never loses, duplicates or reorders data rows: the
\* data rows after the call are as many as before, in the same order, and
\* each original row's text is a prefix of the row at its position.
C39_EnsureHeaderKeepsRows ==
  \A i \in EnsureHeaderCalls :
    LET before == DataRows(ret[i].before)
        after == DataRows(ret[i].after)
    IN /\ Len(after) = Len(before)
       /\ \A k \in DOMAIN before : startsWith(after[k], before[k])

\* C39 witness: a headerless file of two different rows, the first narrow,
\* was migrated: both rows were padded and stand in their order under the
\* new header.
C39_Witness ==
  \E i \in EnsureHeaderCalls :
    LET before == DataRows(ret[i].before)
        after == DataRows(ret[i].after)
    IN /\ ~HasHeaderLine(ret[i].before) /\ HasHeaderLine(ret[i].after)
       /\ Len(before) = 2 /\ Len(after) = 2
       /\ before[1] # before[2]
       /\ Len(after[1]) > Len(before[1]) /\ Len(after[2]) > Len(before[2])
       /\ startsWith(after[1], before[1]) /\ startsWith(after[2], before[2])

\* An outdated header was replaced and the rows under it were kept.
C39_HeaderReplacedReached ==
  \E i \in EnsureHeaderCalls :
    /\ HasHeaderLine(ret[i].before)
    /\ LinesOf(ret[i].before)[1] = OldHeader
    /\ LinesOf(ret[i].after)[1] = CSV_HEADER
    /\ Len(DataRows(ret[i].before)) = 2
    /\ Len(DataRows(ret[i].after)) = 2

(***************************************************************************)
(* Properties of a session while it is in the map (Spec)                   *)
(***************************************************************************)
\* Every count of tally a is at most the count of tally b.
NoCountLower(a, b) ==
  /\ a.input <= b.input /\ a.output <= b.output
  /\ a.reasoning <= b.reasoning
  /\ a.cacheRead <= b.cacheRead /\ a.cacheWrite <= b.cacheWrite

\* C40: while a session stays in the map its startTime never changes and
\* its activities and token totals are never reset, whatever the order and
\* interleaving of tool.execute.after, message.updated and
\* message.part.updated events: a session is created only for an id that
\* is not in the map at that moment.
C40_SessionNeverReset ==
  [][\A sid \in SessionIds :
       /\ (has(sessions, sid) /\ has(sessions', sid))
          => /\ sessions'[sid].startTime = sessions[sid].startTime
             /\ startsWith(sessions'[sid].activities, sessions[sid].activities)
             /\ NoCountLower(sessions[sid].tokenUsage, sessions'[sid].tokenUsage)
             /\ creates'[sid] = creates[sid]
       /\ creates'[sid] # creates[sid]
          => /\ ~has(sessions, sid) /\ has(sessions', sid)
             /\ sessions'[sid].startTime = now']_vars

\* C40 witness: s1 was created by the first tool call, a step-finish part
\* and a second tool call were handled, and s1 still has the start time of
\* its creation, both activities and the part's token.
C40_Witness ==
  /\ has(sessions, "s1") /\ creates["s1"] = 1
  /\ sessions["s1"].startTime = 1
  /\ Len(sessions["s1"].activities) = 2
  /\ sessions["s1"].tokenUsage = [ZeroTokens EXCEPT !.input = 1]
  /\ now = 3

====
